---------------------------- MODULE Spec2Model ----------------------------
(***************************************************************************)
(* A model of the camera projection / rendering core of 3Dto2DImg:         *)
(*   calc3Dto2D.py        Tranceform3D2D (pinhole camera)                  *)
(*   furniture.py         Furniture (box primitive, painter's draw)        *)
(*   room.py              Room (room faces, depth sort, mode selection)    *)
(*   threaded_renderer.py ThreadedRenderer (chunked parallel draw + merge) *)
(*                                                                         *)
(* Arithmetic.  World coordinates, extents and camera parameters are       *)
(* integers and the Euler angles are multiples of 90 degrees, so that the  *)
(* rotation matrix, every depth and every quotient is computed exactly;    *)
(* int(q) of a quotient q is truncation toward zero.  Extents are even, so *)
(* that every centre (x + extent/2, mean of four corners) is an integer.   *)
(*                                                                         *)
(* Raster.  An image is a function from the pixel lattice to colours.      *)
(* cv2.fillPoly paints the lattice points inside or on a convex polygon,   *)
(* cv2.polylines / cv2.line the lattice points on the segments, and        *)
(* cv2.putText its anchor pixel.  Line thickness is not modelled.          *)
(***************************************************************************)
EXTENDS Integers, Sequences, FiniteSets, TLC

(***************************************************************************)
(* Bounds of the model.                                                    *)
(***************************************************************************)
MaxFurn == 10
MaxThreads == 2
MaxDirect == 5
ImgWidth == 5
ImgHeight == 5
MaxCoord == 1
MaxQuarterTurns == 3

(***************************************************************************)
(* Program constants.                                                      *)
(***************************************************************************)
ParallelThreshold == 10
VisibleMargin == 100
BehindSentinel == -10000
ClipMargin == 10000
AxisLength == 150

\* camera.max_focal_length, the largest focal length the zoom reaches.
MaxFocalLength == 2000

\* config_loader.py: the shortest focal length of the zoom
MinFocalLength == 200

\* config_loader.py: the focal length the designer starts with
FocalLength == 600

\* config_loader.py: the default zoom step
ZoomStep == 50

\* config_loader.py: the default grid size of the grid snap
GridSnapSize == 10

(***************************************************************************)
(* Small helpers.                                                          *)
(***************************************************************************)
Abs(a) == IF a < 0 THEN -a ELSE a

Min(a, b) == IF a <= b THEN a ELSE b

Max(a, b) == IF a >= b THEN a ELSE b

\* int(n / d) for d # 0: Python's int() of a float truncates toward zero.
IntTrunc(n, d) ==
    IF (n >= 0) = (d > 0) THEN Abs(n) \div Abs(d) ELSE -(Abs(n) \div Abs(d))

VecSub(a, b) == <<a[1] - b[1], a[2] - b[2], a[3] - b[3]>>

Dot(a, b) == a[1] * b[1] + a[2] * b[2] + a[3] * b[3]

MatVec(M, v) == <<Dot(M[1], v), Dot(M[2], v), Dot(M[3], v)>>

MatCol(M, j) == <<M[1][j], M[2][j], M[3][j]>>

MatMul(A, B) ==
    [i \in 1..3 |-> [j \in 1..3 |-> Dot(A[i], MatCol(B, j))]]

Identity3 == <<<<1, 0, 0>>, <<0, 1, 0>>, <<0, 0, 1>>>>

(***************************************************************************)
(* Tranceform3D2D                                                          *)
(***************************************************************************)
\* math.cos / math.sin of math.radians(angle), angle a multiple of 90.
CosDeg(angle) ==
    LET a == angle % 360 IN
    IF a = 0 THEN 1 ELSE IF a = 180 THEN -1 ELSE 0

SinDeg(angle) ==
    LET a == angle % 360 IN
    IF a = 90 THEN 1 ELSE IF a = 270 THEN -1 ELSE 0

\* _rotation_matrix(angle, axis); an axis outside {0, 1, 2} raises ValueError.
RotationMatrix(angle, axis) ==
    LET c == CosDeg(angle)
        s == SinDeg(angle)
    IN  IF axis = 0 THEN <<<<1, 0, 0>>, <<0, c, -s>>, <<0, s, c>>>>
        ELSE IF axis = 1 THEN <<<<c, 0, s>>, <<0, 1, 0>>, <<-s, 0, c>>>>
        ELSE IF axis = 2 THEN <<<<c, -s, 0>>, <<s, c, 0>>, <<0, 0, 1>>>>
        ELSE "ValueError"

\* __init__(fx, fy, cx, cy): R = eye(3), t = zeros(3).
NewTransform(fx, fy, cx, cy) ==
    [fx |-> fx, fy |-> fy, cx |-> cx, cy |-> cy,
     R |-> Identity3, t |-> <<0, 0, 0>>]

\* set_external_parameter: R = Rz(yaw) @ Ry(pitch) @ Rx(roll), t = (tx, ty, tz).
SetExternalParameterRollLast(tr, roll, pitch, yaw, tx, ty, tz) ==
    LET Rx == RotationMatrix(roll, 0)
        Ry == RotationMatrix(pitch, 1)
        Rz == RotationMatrix(yaw, 2)
    IN  [tr EXCEPT !.R = MatMul(MatMul(Rx, Ry), Rz), !.t = <<tx, ty, tz>>]

SetExternalParameter(tr, roll, pitch, yaw, tx, ty, tz) ==
    LET Rx == RotationMatrix(roll, 0)
        Ry == RotationMatrix(pitch, 1)
        Rz == RotationMatrix(yaw, 2)
    IN  [tr EXCEPT !.R = MatMul(MatMul(Rz, Ry), Rx), !.t = <<tx, ty, tz>>]

\* set_focal_length
SetFocalLength(tr, fx, fy) == [tr EXCEPT !.fx = fx, !.fy = fy]

\* get_camera_position: called by Room.draw and Furniture.draw, its body is
\* not among the sources; the view vector of the cull is taken "from camera
\* position to face centroid", so it returns the translation t.
GetCameraPosition(tr) == tr.t

\* point_camera = R @ (point_3d - t)
PointCamera(tr, p) == MatVec(tr.R, VecSub(p, tr.t))

CamForward(tr, p) == -PointCamera(tr, p)[1]

CamRight(tr, p) == PointCamera(tr, p)[2]

CamDown(tr, p) == -PointCamera(tr, p)[3]

\* The perspective division of cvt_3d_to_2d and cvt_3d_to_2d_with_depth:
\* int(f * a / forward + c), forward # 0.
Perspective(f, a, forward, c) == IntTrunc(f * a + c * forward, forward)

\* cvt_3d_to_2d has no guard on cam_forward.  With cam_forward = 0 the numpy
\* quotient is inf or nan and int() raises (OverflowError / ValueError).
Cvt3dTo2d(tr, p) ==
    LET point_camera == PointCamera(tr, p)
        cam_forward == -point_camera[1]
        cam_right == point_camera[2]
        cam_down == -point_camera[3]
    IN  IF cam_forward = 0
        THEN [raised |-> TRUE, x |-> 0, y |-> 0]
        ELSE [raised |-> FALSE,
              x |-> Perspective(tr.fx, cam_right, cam_forward, tr.cx),
              y |-> Perspective(tr.fy, cam_down, cam_forward, tr.cy)]

\* A guard that excludes only a zero depth.
DepthIsNonZero(fw) == fw # 0

\* The test of cvt_3d_to_2d_with_depth that selects the projection branch.
DepthIsPositive(fw) == fw > 0

\* cvt_3d_to_2d_with_depth
Cvt3dTo2dWithDepth(tr, p) ==
    LET point_camera == PointCamera(tr, p)
        cam_forward == -point_camera[1]
        cam_right == point_camera[2]
        cam_down == -point_camera[3]
    IN  IF DepthIsPositive(cam_forward)
        THEN [x |-> Perspective(tr.fx, cam_right, cam_forward, tr.cx),
              y |-> Perspective(tr.fy, cam_down, cam_forward, tr.cy),
              depth |-> cam_forward]
        ELSE [x |-> BehindSentinel, y |-> BehindSentinel, depth |-> cam_forward]

\* A visibility test whose margin bounds are exclusive.
IsPointVisibleExclusive(tr, p, img_width, img_height, margin) ==
    LET r == Cvt3dTo2dWithDepth(tr, p) IN
    IF r.depth <= 0 THEN FALSE
    ELSE /\ -margin < r.x /\ r.x < img_width + margin
         /\ -margin < r.y /\ r.y < img_height + margin

\* is_point_visible
IsPointVisible(tr, p, img_width, img_height, margin) ==
    LET r == Cvt3dTo2dWithDepth(tr, p) IN
    IF r.depth <= 0 THEN FALSE
    ELSE /\ -margin <= r.x /\ r.x <= img_width + margin
         /\ -margin <= r.y /\ r.y <= img_height + margin

\* self.transform._R.T
Transpose(M) == <<MatCol(M, 1), MatCol(M, 2), MatCol(M, 3)>>

\* _screen_to_world, lines 692-705: ray_world, multiplied by fx * fy > 0 to
\* clear the divisions by the focal lengths.  center_x, center_y are the cx,
\* cy the transform was constructed with.
UnprojectRay(tr, screen_x, screen_y) ==
    LET ray_camera == << (screen_x - tr.cx) * tr.fy,
                         (screen_y - tr.cy) * tr.fx,
                         tr.fx * tr.fy >>
    IN  MatVec(Transpose(tr.R), ray_camera)

\* abs(ray_world[2]) > 0.001, for ray_z = ray_world[2] * scale.
RayMeetsFloor(ray_z, scale) == 1000 * Abs(ray_z) > scale

\* Every intersection is accepted, whatever the sign of t.
IntersectionAnywhere(camera_z, ray_z) == TRUE

\* t > 0 for t = -camera_pos[2] / ray_world[2]; the scale of ray_z is positive.
IntersectionInFront(camera_z, ray_z) ==
    IF ray_z > 0 THEN -camera_z > 0 ELSE -camera_z < 0

NoPoint == [raised |-> FALSE, none |-> TRUE, xn |-> 0, yn |-> 0, den |-> 1]

\* RoomDesigner._screen_to_world: None, or the point (xn / den, yn / den) =
\* camera_pos + t * ray_world.  A focal length 0 raises ZeroDivisionError on
\* line 696 or 697.
ScreenToWorld(tr, screen_x, screen_y) ==
    LET ray_world == UnprojectRay(tr, screen_x, screen_y)
        camera_pos == tr.t
    IN  IF tr.fx = 0 \/ tr.fy = 0 THEN [NoPoint EXCEPT !.raised = TRUE]
        ELSE IF RayMeetsFloor(ray_world[3], tr.fx * tr.fy)
                /\ IntersectionInFront(camera_pos[3], ray_world[3])
        THEN [raised |-> FALSE, none |-> FALSE,
              xn |-> camera_pos[1] * ray_world[3] - camera_pos[3] * ray_world[1],
              yn |-> camera_pos[2] * ray_world[3] - camera_pos[3] * ray_world[2],
              den |-> ray_world[3]]
        ELSE NoPoint

(***************************************************************************)
(* Raster                                                                  *)
(***************************************************************************)
Pixels == (0..(ImgWidth - 1)) \X (0..(ImgHeight - 1))

\* np.zeros((height, width, 3)): the black frame the render loop starts from.
BlankImage == [q \in Pixels |-> "black"]

Cross(a, b, q) == (b[1] - a[1]) * (q[2] - a[2]) - (b[2] - a[2]) * (q[1] - a[1])

InBox(q, a, b) ==
    /\ Min(a[1], b[1]) <= q[1] /\ q[1] <= Max(a[1], b[1])
    /\ Min(a[2], b[2]) <= q[2] /\ q[2] <= Max(a[2], b[2])

\* cv2.line: the lattice points of the segment a-b.
OnSegment(q, a, b) == Cross(a, b, q) = 0 /\ InBox(q, a, b)

NextIdx(i, n) == (i % n) + 1

\* cv2.polylines(isClosed=True): the lattice points of the outline.
OnOutline(q, pts) ==
    \E i \in 1..Len(pts) : OnSegment(q, pts[i], pts[NextIdx(i, Len(pts))])

RECURSIVE MinOf(_, _, _)
MinOf(pts, c, k) ==
    IF k = 1 THEN pts[1][c] ELSE Min(pts[k][c], MinOf(pts, c, k - 1))

RECURSIVE MaxOf(_, _, _)
MaxOf(pts, c, k) ==
    IF k = 1 THEN pts[1][c] ELSE Max(pts[k][c], MaxOf(pts, c, k - 1))

\* The bounding box of the points of a drawing call.
BoundingBox(pts) ==
    [x0 |-> MinOf(pts, 1, Len(pts)), x1 |-> MaxOf(pts, 1, Len(pts)),
     y0 |-> MinOf(pts, 2, Len(pts)), y1 |-> MaxOf(pts, 2, Len(pts))]

\* cv2.fillPoly of a convex polygon: the lattice points inside or on it.
InsidePoly(q, pts) ==
    \/ \A i \in 1..Len(pts) : Cross(pts[i], pts[NextIdx(i, Len(pts))], q) >= 0
    \/ \A i \in 1..Len(pts) : Cross(pts[i], pts[NextIdx(i, Len(pts))], q) <= 0

\* A drawing call is recorded as a paint operation; Paint applies a sequence
\* of them to an image in order, so a later operation overwrites an earlier one.
FillPoly(pts, color) ==
    [kind |-> "fill", pts |-> pts, color |-> color, box |-> BoundingBox(pts)]

Polylines(pts, color) ==
    [kind |-> "outline", pts |-> pts, color |-> color, box |-> BoundingBox(pts)]

Line(a, b, color) ==
    [kind |-> "line", pts |-> <<a, b>>, color |-> color, box |-> BoundingBox(<<a, b>>)]

PutText(org, color) ==
    [kind |-> "text", pts |-> <<org>>, color |-> color, box |-> BoundingBox(<<org>>)]

\* The pixel q is painted by the drawing call op.
Covers(q, op) ==
    /\ op.box.x0 <= q[1] /\ q[1] <= op.box.x1
    /\ op.box.y0 <= q[2] /\ q[2] <= op.box.y1
    /\ IF op.kind = "fill" THEN InsidePoly(q, op.pts)
       ELSE IF op.kind = "outline" THEN OnOutline(q, op.pts)
       ELSE IF op.kind = "line" THEN Cross(op.pts[1], op.pts[2], q) = 0
       ELSE TRUE

\* The colour of pixel q after the drawing calls ops on a pixel of colour
\* base: that of the last call that paints q.
ColorAt(q, ops, base) ==
    LET hits == {k \in 1..Len(ops) : Covers(q, ops[k])} IN
    IF hits = {} THEN base
    ELSE ops[CHOOSE k \in hits : \A j \in hits : j <= k].color

Paint(img, ops) == [q \in Pixels |-> ColorAt(q, ops, img[q])]

(***************************************************************************)
(* clip_line_to_screen                                                     *)
(***************************************************************************)
\* The endpoint behind the camera is left as cvt_3d_to_2d_with_depth returned
\* it.
ClipPointNotReplaced(tr, p1, p2) ==
    [x |-> BehindSentinel, y |-> BehindSentinel]

\* The screen point of p1 + t * (p2 - p1) for t = (0.1 - depth1) / (depth2 -
\* depth1), written over the common denominator 10 * (depth2 - depth1): the
\* camera-space point is (den * c1 + num * (c2 - c1)) / den, its forward
\* component is 0.1 > 0, and the perspective quotient does not depend on the
\* common denominator.
ClipPoint(tr, p1, p2) ==
    LET c1 == PointCamera(tr, p1)
        c2 == PointCamera(tr, p2)
        d1 == -c1[1]
        d2 == -c2[1]
        num == 1 - 10 * d1
        den == 10 * (d2 - d1)
        c == [i \in 1..3 |-> den * c1[i] + num * (c2[i] - c1[i])]
    IN  [x |-> Perspective(tr.fx, c[2], -c[1], tr.cx),
         y |-> Perspective(tr.fy, -c[3], -c[1], tr.cy)]

\* 0 < t < 1 for t = (0.1 - depth1) / (depth2 - depth1), depth1 # depth2.
ClipParamInside(d1, d2) ==
    LET num == 1 - 10 * d1
        den == 10 * (d2 - d1)
    IN  IF den > 0 THEN 0 < num /\ num < den ELSE 0 > num /\ num > den

Clamp(v, lo, hi) == Max(lo, Min(hi, v))

\* clip_line_to_screen: "None", or the two clamped screen points.
\* abs(depth1 - depth2) > 0.001 is depth1 # depth2 for integer depths.
ClipLineToScreen(tr, p1, p2, img_width, img_height) ==
    LET r1 == Cvt3dTo2dWithDepth(tr, p1)
        r2 == Cvt3dTo2dWithDepth(tr, p2)
        d1 == r1.depth
        d2 == r2.depth
        cut == d1 <= 0 \/ d2 <= 0
        ok == d1 # d2 /\ ClipParamInside(d1, d2)
        a == IF cut /\ d1 <= 0 THEN ClipPoint(tr, p1, p2) ELSE [x |-> r1.x, y |-> r1.y]
        b == IF cut /\ d1 > 0 THEN ClipPoint(tr, p1, p2) ELSE [x |-> r2.x, y |-> r2.y]
    IN  IF d1 <= 0 /\ d2 <= 0 THEN "None"
        ELSE IF cut /\ ~ok THEN "None"
        ELSE << <<Clamp(a.x, -ClipMargin, img_width + ClipMargin),
                  Clamp(a.y, -ClipMargin, img_height + ClipMargin)>>,
                <<Clamp(b.x, -ClipMargin, img_width + ClipMargin),
                  Clamp(b.y, -ClipMargin, img_height + ClipMargin)>> >>

(***************************************************************************)
(* Furniture                                                               *)
(***************************************************************************)
\* __init__: is_selected = False.
NewFurniture(name, x, y, z, width, height, depth, color) ==
    [name |-> name, x |-> x, y |-> y, z |-> z,
     width |-> width, height |-> height, depth |-> depth,
     color |-> color, is_selected |-> FALSE]

\* get_vertices: vertex i of the source is element i + 1.
GetVertices(f) ==
    << <<f.x, f.y, f.z>>,
       <<f.x + f.depth, f.y, f.z>>,
       <<f.x + f.depth, f.y + f.width, f.z>>,
       <<f.x, f.y + f.width, f.z>>,
       <<f.x, f.y, f.z + f.height>>,
       <<f.x + f.depth, f.y, f.z + f.height>>,
       <<f.x + f.depth, f.y + f.width, f.z + f.height>>,
       <<f.x, f.y + f.width, f.z + f.height>> >>

\* get_faces: (vertex indices, normal), indices as in the source (from 0).
GetFaces ==
    << [idx |-> <<0, 3, 2, 1>>, normal |-> <<0, 0, -1>>],
       [idx |-> <<4, 5, 6, 7>>, normal |-> <<0, 0, 1>>],
       [idx |-> <<0, 1, 5, 4>>, normal |-> <<-1, 0, 0>>],
       [idx |-> <<2, 3, 7, 6>>, normal |-> <<1, 0, 0>>],
       [idx |-> <<0, 4, 7, 3>>, normal |-> <<0, -1, 0>>],
       [idx |-> <<1, 2, 6, 5>>, normal |-> <<0, 1, 0>>] >>

\* np.mean([vertices[i] for i in face_indices], axis=0), four vertices.
FaceCenterCoord(vertices, idx, k) ==
    (vertices[idx[1] + 1][k] + vertices[idx[2] + 1][k]
     + vertices[idx[3] + 1][k] + vertices[idx[4] + 1][k]) \div 4

FaceCenter(vertices, idx) ==
    <<FaceCenterCoord(vertices, idx, 1), FaceCenterCoord(vertices, idx, 2),
      FaceCenterCoord(vertices, idx, 3)>>

\* The position of an element among those already sorted: list.sort(key=depth,
\* reverse=True) is stable, so it goes behind every element that is not nearer.
GoesBehindAscending(e, other) == other.depth <= e.depth

GoesBehind(e, other) == other.depth >= e.depth

RECURSIVE InsertDesc(_, _)
InsertDesc(sorted, e) ==
    IF sorted = <<>> THEN <<e>>
    ELSE IF GoesBehind(e, Head(sorted))
         THEN <<Head(sorted)>> \o InsertDesc(Tail(sorted), e)
         ELSE <<e>> \o sorted

RECURSIVE SortDesc(_)
SortDesc(s) ==
    IF s = <<>> THEN <<>>
    ELSE InsertDesc(SortDesc(SubSeq(s, 1, Len(s) - 1)), s[Len(s)])

\* list.sort(key=depth): ascending and stable.
RECURSIVE InsertAsc(_, _)
InsertAsc(sorted, e) ==
    IF sorted = <<>> THEN <<e>>
    ELSE IF Head(sorted).depth <= e.depth
         THEN <<Head(sorted)>> \o InsertAsc(Tail(sorted), e)
         ELSE <<e>> \o sorted

RECURSIVE SortAsc(_)
SortAsc(s) ==
    IF s = <<>> THEN <<>>
    ELSE InsertAsc(SortAsc(SubSeq(s, 1, Len(s) - 1)), s[Len(s)])

\* The loop over face_indices shared by Furniture.draw, Room.draw and
\* _render_face_chunk: every vertex passes is_point_visible.
AllVisible(tr, vertices, idx) ==
    \A k \in 1..Len(idx) :
        IsPointVisible(tr, vertices[idx[k] + 1], ImgWidth, ImgHeight, VisibleMargin)

\* points_2d of a face whose vertices are all visible: pt is appended for
\* each index in turn.
RECURSIVE Points2d(_, _, _)
Points2d(tr, vertices, idx) ==
    IF idx = <<>> THEN <<>>
    ELSE LET pt == Cvt3dTo2d(tr, vertices[Head(idx) + 1])
         IN  <<<<pt.x, pt.y>>>> \o Points2d(tr, vertices, Tail(idx))

\* Furniture.draw, lines 184-203: the faces in front of the camera, farthest
\* first (back-face culling is disabled in this revision).
RECURSIVE FacesInFront(_, _, _)
FacesInFront(tr, vertices, faces) ==
    IF faces = <<>> THEN <<>>
    ELSE LET face_center == FaceCenter(vertices, Head(faces).idx)
             depth == Cvt3dTo2dWithDepth(tr, face_center).depth
         IN  (IF depth > 0 THEN <<[idx |-> Head(faces).idx, depth |-> depth]>> ELSE <<>>)
             \o FacesInFront(tr, vertices, Tail(faces))

\* Furniture.draw of room_designer.py, lines 183-204: a face whose normal has
\* a negative dot product with the view vector is skipped, the others are
\* kept when their centre is in front of the camera.
RECURSIVE DesignerFacesInFront(_, _, _)
DesignerFacesInFront(tr, vertices, faces) ==
    IF faces = <<>> THEN <<>>
    ELSE LET face_center == FaceCenter(vertices, Head(faces).idx)
             view_vector == VecSub(face_center, GetCameraPosition(tr))
             depth == Cvt3dTo2dWithDepth(tr, face_center).depth
         IN  (IF Dot(Head(faces).normal, view_vector) >= 0 /\ depth > 0
              THEN <<[idx |-> Head(faces).idx, depth |-> depth]>>
              ELSE <<>>)
             \o DesignerFacesInFront(tr, vertices, Tail(faces))

DesignerFacesWithDepth(f, tr) ==
    SortDesc(DesignerFacesInFront(tr, GetVertices(f), GetFaces))

FurnitureFacesWithDepth(f, tr) == SortDesc(FacesInFront(tr, GetVertices(f), GetFaces))

\* The faces Furniture.draw fills and outlines, in the order it paints them.
FurnitureFacesPainted(f, tr) ==
    SelectSeq(FurnitureFacesWithDepth(f, tr),
              LAMBDA fc : AllVisible(tr, GetVertices(f), fc.idx))

\* cv2.fillPoly and cv2.polylines of each face, in the order of the list.
RECURSIVE PaintFaces(_, _, _, _, _)
PaintFaces(tr, vertices, faces, face_color, line_color) ==
    IF faces = <<>> THEN <<>>
    ELSE LET pts == Points2d(tr, vertices, Head(faces).idx)
         IN  <<FillPoly(pts, face_color), Polylines(pts, line_color)>>
             \o PaintFaces(tr, vertices, Tail(faces), face_color, line_color)

\* Every point is projected, visible or not.
ProjectsEveryPoint(tr, p) == TRUE

\* The test in front of each cvt_3d_to_2d call of the drawing and hit-test
\* code: if transform.is_point_visible(*vertex, img_width, img_height).
ProjectsPoint(tr, p) == IsPointVisible(tr, p, ImgWidth, ImgHeight, VisibleMargin)

\* The inner loop over face_indices: the vertices cvt_3d_to_2d is called on,
\* up to the first one that fails the test and breaks the loop.
RECURSIVE FaceLoopCalls(_, _, _)
FaceLoopCalls(tr, vertices, idx) ==
    IF idx = <<>> THEN <<>>
    ELSE IF ProjectsPoint(tr, vertices[Head(idx) + 1])
         THEN <<vertices[Head(idx) + 1]>> \o FaceLoopCalls(tr, vertices, Tail(idx))
         ELSE <<>>

\* The inner loop over face_indices: pt is appended for each vertex that
\* passes is_point_visible, and the first one that fails breaks the loop.
PointsUntilBreak(tr, vertices, idx) ==
    LET calls == FaceLoopCalls(tr, vertices, idx)
    IN  [k \in 1..Len(calls) |->
            LET pt == Cvt3dTo2d(tr, calls[k]) IN <<pt.x, pt.y>>]

\* A face is drawn as soon as three points were collected.
FaceIsDrawnFromThreePoints(all_visible, points_2d) == Len(points_2d) >= 3

\* The else branch of the loop (all_visible in _render_face_chunk) and
\* len(points_2d) >= 3.
FaceIsDrawn(all_visible, points_2d) == all_visible /\ Len(points_2d) >= 3

\* overlay = img.copy(); cv2.fillPoly(overlay, ...); cv2.addWeighted(overlay,
\* 0.1, img, 0.9, 0, img): on the black frame the polygon takes a tenth of
\* the colour.
FillPolyWeighted(pts, color) == FillPoly(pts, "faint")

\* The body of the loop over the faces in Furniture.draw ("furniture"),
\* Room.draw ("room") and _render_face_chunk ("chunk"): the drawing calls made
\* for one face.
DrawFaceOps(site, tr, vertices, idx, face_color, line_color) ==
    LET points_2d == PointsUntilBreak(tr, vertices, idx)
        all_visible == Len(points_2d) = Len(idx)
    IN  IF FaceIsDrawn(all_visible, points_2d)
        THEN << IF site = "chunk" THEN FillPolyWeighted(points_2d, face_color)
                ELSE FillPoly(points_2d, face_color),
                Polylines(points_2d, line_color) >>
        ELSE <<>>

\* Furniture.draw, lines 228-234: the point cvt_3d_to_2d is called on for the
\* name, the top centre, if it passes the test.
LabelCalls(f, tr) ==
    LET c == <<f.x + f.depth \div 2, f.y + f.width \div 2, f.z + f.height>>
    IN  IF ProjectsPoint(tr, c) THEN <<c>> ELSE <<>>

\* Furniture.draw, lines 228-247: the name at the projected top centre.
FurnitureLabel(f, tr) ==
    LET calls == LabelCalls(f, tr)
        text_color == IF f.is_selected THEN "black" ELSE "white"
    IN  IF calls # <<>>
        THEN LET center == Cvt3dTo2d(tr, calls[1])
             IN  <<PutText(<<center.x, center.y>>, text_color)>>
        ELSE <<>>

\* Furniture.draw: the drawing calls it makes, in order.  With no face in
\* front of the camera it returns on line 200, before the name is drawn.
FurnitureDrawOps(f, tr) ==
    LET face_color == IF f.is_selected THEN "yellow" ELSE f.color
        line_color == IF f.is_selected THEN "white" ELSE "dark"
        vertices == GetVertices(f)
        faces_with_depth == FurnitureFacesWithDepth(f, tr)
    IN  IF faces_with_depth = <<>> THEN <<>>
        ELSE PaintFaces(tr, vertices,
                        SelectSeq(faces_with_depth,
                                  LAMBDA fc : AllVisible(tr, vertices, fc.idx)),
                        face_color, line_color)
             \o FurnitureLabel(f, tr)

\* Furniture.draw
FurnitureDraw(img, f, tr) == Paint(img, FurnitureDrawOps(f, tr))

(***************************************************************************)
(* CoordinatePrecision and Furniture.move_to.  Where coordinates are       *)
(* quantised they are counted in halves of the length unit, so that        *)
(* rounding to an integer or to a grid has something to round.             *)
(***************************************************************************)
\* Python's round(n / d) for d > 0: to the nearest integer, ties to even.
RoundHalfEven(n, d) ==
    LET q == n \div d
        r == n - q * d
    IN  IF 2 * r < d THEN q
        ELSE IF 2 * r > d THEN q + 1
        ELSE IF q % 2 = 0 THEN q ELSE q + 1

\* CoordinatePrecision(mode, grid_snap_enabled, grid_snap_size)
NewPrecision(mode, grid_snap_enabled, grid_snap_size) ==
    [mode |-> mode, grid_snap_enabled |-> grid_snap_enabled,
     grid_snap_size |-> grid_snap_size]

\* quantize, on a count of halves: round(value, 0) rounds to a whole number of
\* units; one decimal place or more keeps a half as it is.
Quantize(precision, value) ==
    IF precision.mode = "full" THEN value
    ELSE IF precision.mode = "integer" THEN RoundHalfEven(value, 2) * 2
    ELSE value

\* snap_to_grid
SnapToGrid(precision, value) ==
    IF ~precision.grid_snap_enabled \/ precision.grid_snap_size <= 0
    THEN value
    ELSE RoundHalfEven(value, precision.grid_snap_size) * precision.grid_snap_size

\* process_coordinate
ProcessCoordinate(precision, x, y, z) ==
    LET sx == IF precision.grid_snap_enabled THEN SnapToGrid(precision, x) ELSE x
        sy == IF precision.grid_snap_enabled THEN SnapToGrid(precision, y) ELSE y
        sz == IF precision.grid_snap_enabled THEN SnapToGrid(precision, z) ELSE z
    IN  <<Quantize(precision, sx), Quantize(precision, sy), Quantize(precision, sz)>>

\* move_to(x, y) without a precision object: precision = None.
NoPrecision == [mode |-> "None"]

\* move_to storing all three processed coordinates.
MoveToStoresZ(f, x, y, precision) ==
    LET p == IF precision = NoPrecision THEN <<x, y, f.z>>
             ELSE ProcessCoordinate(precision, x, y, f.z)
    IN  [f EXCEPT !.x = p[1], !.y = p[2], !.z = p[3]]

\* move_to: the processed z is dropped.
MoveTo(f, x, y, precision) ==
    LET p == IF precision = NoPrecision THEN <<x, y, f.z>>
             ELSE ProcessCoordinate(precision, x, y, f.z)
    IN  [f EXCEPT !.x = p[1], !.y = p[2]]

(***************************************************************************)
(* Room                                                                    *)
(***************************************************************************)
\* __init__
NewRoom(width, depth, height, color) ==
    [width |-> width, depth |-> depth, height |-> height, color |-> color]

\* Room.draw, lines 114-123
RoomVertices(room) ==
    << <<0, 0, 0>>,
       <<room.depth, 0, 0>>,
       <<room.depth, room.width, 0>>,
       <<0, room.width, 0>>,
       <<0, 0, room.height>>,
       <<room.depth, 0, room.height>>,
       <<room.depth, room.width, room.height>>,
       <<0, room.width, room.height>> >>

\* Room.draw, lines 126-139
RoomFaces ==
    << [idx |-> <<0, 1, 2, 3>>, normal |-> <<0, 0, 1>>],
       [idx |-> <<4, 7, 6, 5>>, normal |-> <<0, 0, -1>>],
       [idx |-> <<0, 3, 7, 4>>, normal |-> <<-1, 0, 0>>],
       [idx |-> <<1, 5, 6, 2>>, normal |-> <<1, 0, 0>>],
       [idx |-> <<0, 4, 5, 1>>, normal |-> <<0, -1, 0>>],
       [idx |-> <<3, 2, 6, 7>>, normal |-> <<0, 1, 0>>] >>

\* Room.draw, lines 150-156: dot_product > 0.01 rejects the face.
RoomFaceCulled(room, tr, face) ==
    LET face_center == FaceCenter(RoomVertices(room), face.idx)
        view_vector == VecSub(face_center, GetCameraPosition(tr))
    IN  100 * Dot(face.normal, view_vector) > 1

\* Room.draw, lines 142-168: room_faces_with_depth after the sort.
RECURSIVE RoomFacesInFront(_, _, _)
RoomFacesInFront(room, tr, faces) ==
    IF faces = <<>> THEN <<>>
    ELSE LET face_center == FaceCenter(RoomVertices(room), Head(faces).idx)
             depth == Cvt3dTo2dWithDepth(tr, face_center).depth
         IN  (IF ~RoomFaceCulled(room, tr, Head(faces)) /\ depth > 0
              THEN <<[idx |-> Head(faces).idx, depth |-> depth]>>
              ELSE <<>>)
             \o RoomFacesInFront(room, tr, Tail(faces))

RoomFacesWithDepth(room, tr) == SortDesc(RoomFacesInFront(room, tr, RoomFaces))

\* The room faces Room.draw fills and outlines, in the order it paints them.
RoomFacesPainted(room, tr) ==
    SelectSeq(RoomFacesWithDepth(room, tr),
              LAMBDA fc : AllVisible(tr, RoomVertices(room), fc.idx))

\* draw_axes: one axis.  cv2.line and cv2.arrowedLine paint the clipped
\* segment, cv2.putText the label at (p2[0] + 10, p2[1]).
DrawAxis(tr, origin, end_point, color) ==
    LET result == ClipLineToScreen(tr, origin, end_point, ImgWidth, ImgHeight) IN
    IF result = "None" THEN <<>>
    ELSE <<Line(result[1], result[2], color),
           PutText(<<result[2][1] + 10, result[2][2]>>, color)>>

\* draw_axes
DrawAxes(tr, origin, length) ==
    DrawAxis(tr, origin, <<origin[1] + length, origin[2], origin[3]>>, "red")
    \o DrawAxis(tr, origin, <<origin[1], origin[2] + length, origin[3]>>, "green")
    \o DrawAxis(tr, origin, <<origin[1], origin[2], origin[3] + length>>, "blue")

\* Room.draw, lines 164-165: no room face survives, draw returns at once.
RoomDrawReturnsEarly(room, tr) == RoomFacesWithDepth(room, tr) = <<>>

\* Room.draw, lines 105-192: the axes and the room faces.
RoomDrawRoom(img, room, tr) ==
    Paint(img,
          DrawAxes(tr, <<0, 0, 0>>, AxisLength)
          \o (IF RoomDrawReturnsEarly(room, tr) THEN <<>>
              ELSE PaintFaces(tr, RoomVertices(room), RoomFacesPainted(room, tr),
                              "roomgray", room.color)))

\* Room.draw, lines 195-205: furniture_with_depth after the sort; fi is the
\* position of the furniture in room.furnitures.
RECURSIVE FurnituresInFront(_, _, _)
FurnituresInFront(furnitures, tr, i) ==
    IF i > Len(furnitures) THEN <<>>
    ELSE LET f == furnitures[i]
             depth == Cvt3dTo2dWithDepth(tr,
                          <<f.x + f.depth \div 2,
                            f.y + f.width \div 2,
                            f.z + f.height \div 2>>).depth
         IN  (IF depth > 0 THEN <<[fi |-> i, depth |-> depth]>> ELSE <<>>)
             \o FurnituresInFront(furnitures, tr, i + 1)

FurnitureWithDepth(furnitures, tr) == SortDesc(FurnituresInFront(furnitures, tr, 1))

\* _point_in_polygon: the loop over the edges from edge i on, p1 the start of
\* edge i and inside the flag so far.  px <= xinters is compared without the
\* division: xinters - p1x = (py - p1y) * (p2x - p1x) / (p2y - p1y), and p1y
\* # p2y wherever min(p1y, p2y) < py <= max(p1y, p2y), so xinters is always
\* assigned before it is read.
RECURSIVE RayCast(_, _, _, _, _, _)
RayCast(px, py, polygon, i, p1, inside) ==
    IF i > Len(polygon) THEN inside
    ELSE LET p2 == polygon[(i % Len(polygon)) + 1]
             dy == p2[2] - p1[2]
             lhs == (px - p1[1]) * dy
             rhs == (py - p1[2]) * (p2[1] - p1[1])
             below == IF dy > 0 THEN lhs <= rhs ELSE lhs >= rhs
             toggles == /\ py > Min(p1[2], p2[2])
                        /\ py <= Max(p1[2], p2[2])
                        /\ px <= Max(p1[1], p2[1])
                        /\ (p1[1] = p2[1] \/ below)
         IN  RayCast(px, py, polygon, i + 1, p2, IF toggles THEN ~inside ELSE inside)

\* Furniture._point_in_polygon
PointInPolygon(px, py, polygon) == RayCast(px, py, polygon, 1, polygon[1], FALSE)

\* is_point_inside_2d, lines 79-84: the floor vertices cvt_3d_to_2d is
\* called on, those that pass the test.
RECURSIVE FloorCalls(_, _, _)
FloorCalls(f, tr, i) ==
    IF i > 4 THEN <<>>
    ELSE LET vertex == GetVertices(f)[i]
         IN  (IF ProjectsPoint(tr, vertex) THEN <<vertex>> ELSE <<>>)
             \o FloorCalls(f, tr, i + 1)

\* is_point_inside_2d, lines 79-84: the projections of the floor vertices
\* that pass is_point_visible.
FloorVertices2d(f, tr, i) ==
    LET calls == FloorCalls(f, tr, i)
    IN  [k \in 1..Len(calls) |->
            LET pt == Cvt3dTo2d(tr, calls[k]) IN <<pt.x, pt.y>>]

\* Furniture.is_point_inside_2d
IsPointInside2d(f, px, py, tr) ==
    LET vertices_2d == FloorVertices2d(f, tr, 1)
    IN  IF Len(vertices_2d) = 4 THEN PointInPolygon(px, py, vertices_2d) ELSE FALSE

\* find_furniture_at_point, lines 51-57: the furnitures whose point
\* (x + width / 2, y + depth / 2, z) has a positive depth, with that depth.
RECURSIVE HitCandidates(_, _, _)
HitCandidates(furnitures, tr, i) ==
    IF i > Len(furnitures) THEN <<>>
    ELSE LET f == furnitures[i]
             depth == Cvt3dTo2dWithDepth(tr,
                          <<f.x + f.width \div 2, f.y + f.depth \div 2, f.z>>).depth
         IN  (IF depth > 0 THEN <<[fi |-> i, depth |-> depth]>> ELSE <<>>)
             \o HitCandidates(furnitures, tr, i + 1)

\* find_furniture_at_point, lines 63-67: the first entry hit, 0 for None.
RECURSIVE FirstHit(_, _, _, _, _)
FirstHit(list, furnitures, px, py, tr) ==
    IF list = <<>> THEN 0
    ELSE IF IsPointInside2d(furnitures[Head(list).fi], px, py, tr) THEN Head(list).fi
    ELSE FirstHit(Tail(list), furnitures, px, py, tr)

\* Room.find_furniture_at_point: the position of the furniture returned in
\* room.furnitures, 0 for None.
FindFurnitureAtPoint(furnitures, px, py, tr) ==
    FirstHit(SortAsc(HitCandidates(furnitures, tr, 1)), furnitures, px, py, tr)

\* Room.draw, line 209: the parallel branch is taken.
UseParallel(threaded_renderer, count) ==
    threaded_renderer /\ count >= ParallelThreshold

(***************************************************************************)
(* ThreadedRenderer                                                        *)
(***************************************************************************)
\* render_furnitures_parallel, line 46
ChunkSize(n, num_threads) == Max(1, n \div num_threads)

\* range(0, n, chunk_size): the start offsets (from 0) of the chunks.
ChunkStarts(n, chunk_size) ==
    [j \in 1..((n + chunk_size - 1) \div chunk_size) |-> (j - 1) * chunk_size]

\* Slices [i : i + chunk_size + 1], one entry too long.
MakeChunksOverlap(list, num_threads) ==
    LET n == Len(list)
        chunk_size == ChunkSize(n, num_threads)
        starts == ChunkStarts(n, chunk_size)
    IN  [j \in 1..Len(starts) |->
            SubSeq(list, starts[j] + 1, Min(n, starts[j] + chunk_size + 1))]

\* render_furnitures_parallel, lines 47-48: the slices [i : i + chunk_size].
MakeChunks(list, num_threads) ==
    LET n == Len(list)
        chunk_size == ChunkSize(n, num_threads)
        starts == ChunkStarts(n, chunk_size)
    IN  [j \in 1..Len(starts) |->
            SubSeq(list, starts[j] + 1, Min(n, starts[j] + chunk_size))]

\* _render_furniture_chunk: furniture.draw for each entry of the chunk, in order.
RECURSIVE ChunkDrawOps(_, _, _)
ChunkDrawOps(furniture_chunk, furnitures, tr) ==
    IF furniture_chunk = <<>> THEN <<>>
    ELSE FurnitureDrawOps(furnitures[Head(furniture_chunk).fi], tr)
         \o ChunkDrawOps(Tail(furniture_chunk), furnitures, tr)

RenderFurnitureChunk(img, furniture_chunk, furnitures, tr) ==
    Paint(img, ChunkDrawOps(furniture_chunk, furnitures, tr))

\* render_furnitures_parallel, lines 67-68:
\* mask = np.any(chunk_img != img, axis=2); result_img[mask] = chunk_img[mask].
MergeChunk(result_img, chunk_img, img) ==
    [q \in Pixels |-> IF chunk_img[q] # img[q] THEN chunk_img[q] ELSE result_img[q]]

\* The heap is the sequence of image buffers, a buffer's id its position.
\* img passed to the task without .copy(): the task draws into img itself.
WorkerAlias(bufs, id) == [heap |-> bufs, id |-> id]

\* img.copy() on line 55: a fresh buffer for the task.
WorkerCopy(bufs, id) == [heap |-> Append(bufs, bufs[id]), id |-> Len(bufs) + 1]

\* img.copy() on line 63: a fresh buffer for the merged result.
ResultCopy(bufs, id) == [heap |-> Append(bufs, bufs[id]), id |-> Len(bufs) + 1]

(***************************************************************************)
(* The scenes and cameras the frames are rendered for.                     *)
(***************************************************************************)
\* Camera poses (roll, pitch, yaw, position): the top view above the room
\* centre, a view from outside the room along -X, and a view from inside the
\* room towards the wall x = 0.
Poses ==
    { [roll |-> 0, pitch |-> 90, yaw |-> 0, t |-> <<4, 4, 10>>],
      [roll |-> 0, pitch |-> 0, yaw |-> 0, t |-> <<12, 4, 2>>],
      [roll |-> 0, pitch |-> 0, yaw |-> 0, t |-> <<2, 4, 2>>] }

TheRoom == NewRoom(8, 8, 4, "gray")

\* The furniture records the scenes are built from.
Catalogue ==
    << NewFurniture("a", 2, 2, 0, 4, 2, 4, "red"),
       NewFurniture("b", 2, 2, 0, 2, 4, 2, "navy"),
       NewFurniture("c", 0, 4, 0, 2, 2, 2, "olive"),
       [NewFurniture("d", 4, 0, 0, 2, 2, 4, "teal") EXCEPT !.is_selected = TRUE] >>

\* room.furnitures after n calls of add_furniture.
Scene(n) == [i \in 1..n |-> Catalogue[((i - 1) % Len(Catalogue)) + 1]]

(***************************************************************************)
(* State                                                                   *)
(***************************************************************************)
VARIABLES
    transform,           \* the Tranceform3D2D of the frame
    room,                \* the Room
    furnitures,          \* room.furnitures
    threaded_renderer,   \* a ThreadedRenderer exists and is passed to Room.draw
    num_threads,         \* ThreadedRenderer.num_threads
    entry,               \* "room_draw": Room.draw renders the frame;
                         \* "direct": render_furnitures_parallel is called itself
    heap,                \* the image buffers; heap[1] is img, the target image
    pc,                  \* where the render thread is
    furniture_with_depth,\* the sorted list of Room.draw
    seq_i,               \* the position of the sequential loop in that list
    chunks,              \* the chunks of render_furnitures_parallel
    futures,             \* the chunk tasks submitted, in submission order
    result_img,          \* the buffer id of result_img (0: none yet)
    executor,            \* "running", "shutting" (shutdown called), "joined"
    painted,             \* history: the furnitures drawn by the render thread
    draw_count,          \* history: calls of furniture.draw per furniture
    img_at_call,         \* history: img when render_furnitures_parallel began
    busy_at_shutdown,    \* history: a task was unfinished when shutdown began
    cam_call,            \* the last call made on a Tranceform3D2D by its user
    mouse_controller,    \* the MouseController of the designer
    designer,            \* RoomDesigner: focal length, zoom settings, precision
                         \* and the index of selected_furniture (0: None)
    mouse_held,          \* the mouse buttons that are down
    mouse_result,        \* the dictionary handle_mouse_event returned last
    drag_history         \* history: "selected" from a 'select' to the next left
                         \* release, "released" right after that release

mouse_vars == <<mouse_controller, designer, mouse_held, mouse_result, drag_history>>

vars ==
    <<transform, room, furnitures, threaded_renderer, num_threads, entry, heap,
      pc, furniture_with_depth, seq_i, chunks, futures, result_img, executor,
      painted, draw_count, img_at_call, busy_at_shutdown, cam_call, mouse_vars>>

scene_vars ==
    <<transform, room, furnitures, threaded_renderer, num_threads, entry, cam_call,
      mouse_vars>>

\* Everything but the transform and the record of the call made on it.
frame_vars ==
    <<room, furnitures, threaded_renderer, num_threads, entry, heap, pc,
      furniture_with_depth, seq_i, chunks, futures, result_img, executor, painted,
      draw_count, img_at_call, busy_at_shutdown, mouse_vars>>

\* The buffer of img, the image the caller passes in.
TargetImg == 1

NoCall == [op |-> "none"]

\* MouseController.__init__: no drag mode is on and the offsets are zero.
NewMouseController ==
    [furniture_dragging |-> FALSE,
     furniture_drag_offset_x |-> 0,
     furniture_drag_offset_y |-> 0,
     camera_panning |-> FALSE,
     ue5_camera_moving |-> FALSE,
     view_rotating |-> FALSE,
     both_buttons_moving |-> FALSE]

\* The result dictionary handle_mouse_event starts from.
NewResult(event, focal_length) ==
    [event |-> event, camera_updated |-> FALSE, furniture_action |-> "None",
     focal_length |-> focal_length, selected_furniture |-> 0,
     drag_offset |-> <<>>, drag_position |-> <<>>]

\* RoomDesigner.__init__ with the zoom settings and the precision given.
NewDesigner(focal_length, zoom_step, precision) ==
    [focal_length |-> focal_length,
     min_focal_length |-> MinFocalLength,
     max_focal_length |-> MaxFocalLength,
     zoom_step |-> zoom_step,
     precision |-> precision,
     selected_furniture |-> 0]

\* No designer window is open: no mouse event is handled.
NoMouse ==
    /\ mouse_controller = NewMouseController
    /\ designer = NewDesigner(FocalLength, ZoomStep, NoPrecision)
    /\ mouse_held = {}
    /\ mouse_result = NewResult("none", FocalLength)
    /\ drag_history = "idle"

\* How a frame is rendered: Room.draw without a renderer (no thread pool
\* exists; num_threads is then not used), Room.draw with a renderer of 1 to
\* MaxThreads workers, or a direct call of render_furnitures_parallel.
Entries ==
    {[renderer |-> FALSE, entry |-> "room_draw", threads |-> 1, maxn |-> MaxFurn]}
    \cup {[renderer |-> TRUE, entry |-> "room_draw", threads |-> k, maxn |-> MaxFurn] :
            k \in 1..MaxThreads}
    \cup {[renderer |-> TRUE, entry |-> "direct", threads |-> k, maxn |-> MaxDirect] :
            k \in 1..MaxThreads}


Init ==
    /\ \E pose \in Poses :
          transform =
              SetExternalParameter(
                  NewTransform(8, 8, ImgWidth \div 2, ImgHeight \div 2),
                  pose.roll, pose.pitch, pose.yaw, pose.t[1], pose.t[2], pose.t[3])
    /\ room = TheRoom
    /\ \E e \in Entries :
          /\ threaded_renderer = e.renderer
          /\ entry = e.entry
          /\ num_threads = e.threads
          /\ \E n \in 0..e.maxn : furnitures = Scene(n)
    /\ heap = <<BlankImage>>
    /\ pc = "start"
    /\ furniture_with_depth = <<>>
    /\ seq_i = 0
    /\ chunks = <<>>
    /\ futures = <<>>
    /\ result_img = 0
    /\ executor = "running"
    /\ painted = <<>>
    /\ draw_count = [i \in 1..Len(furnitures) |-> 0]
    /\ img_at_call = BlankImage
    /\ busy_at_shutdown = FALSE
    /\ NoMouse
    /\ cam_call = NoCall

(***************************************************************************)
(* Room.draw                                                               *)
(***************************************************************************)
\* Room.draw up to the branch on line 209: the axes, the room faces (or the
\* early return), the sorted furniture list, and the choice of the mode.  The
\* parallel branch enters render_furnitures_parallel (the list holds at least
\* ParallelThreshold entries, so line 42 does not return) and cuts the chunks.
RoomDrawBegin ==
    /\ pc = "start"
    /\ entry = "room_draw"
    /\ LET img == RoomDrawRoom(heap[TargetImg], room, transform)
           list == FurnitureWithDepth(furnitures, transform)
       IN  /\ heap' = [heap EXCEPT ![TargetImg] = img]
           /\ IF RoomDrawReturnsEarly(room, transform)
              THEN /\ pc' = "early_return"
                   /\ UNCHANGED <<furniture_with_depth, chunks, img_at_call, seq_i>>
              ELSE /\ furniture_with_depth' = list
                   /\ IF UseParallel(threaded_renderer, Len(list))
                      THEN /\ pc' = "dispatch"
                           /\ chunks' = MakeChunks(list, num_threads)
                           /\ img_at_call' = img
                           /\ UNCHANGED seq_i
                      ELSE /\ pc' = IF list = <<>> THEN "done" ELSE "seq"
                           /\ seq_i' = 1
                           /\ UNCHANGED <<chunks, img_at_call>>
    /\ UNCHANGED <<scene_vars, futures, result_img, executor, painted, draw_count,
                   busy_at_shutdown>>

\* Room.draw, lines 216-217: one iteration of the sequential loop.
SeqDraw ==
    /\ pc = "seq"
    /\ LET fi == furniture_with_depth[seq_i].fi IN
       /\ heap' = [heap EXCEPT ![TargetImg] = FurnitureDraw(@, furnitures[fi], transform)]
       /\ painted' = Append(painted, fi)
       /\ draw_count' = [draw_count EXCEPT ![fi] = @ + 1]
    /\ seq_i' = seq_i + 1
    /\ pc' = IF seq_i = Len(furniture_with_depth) THEN "done" ELSE "seq"
    /\ UNCHANGED <<scene_vars, furniture_with_depth, chunks, futures, result_img,
                   executor, img_at_call, busy_at_shutdown>>

\* Room.draw, line 211: img[:] = the image render_furnitures_parallel returned.
RoomAssign ==
    /\ pc = "returned"
    /\ entry = "room_draw"
    /\ heap' = [heap EXCEPT ![TargetImg] = heap[result_img]]
    /\ pc' = "done"
    /\ UNCHANGED <<scene_vars, furniture_with_depth, seq_i, chunks, futures,
                   result_img, executor, painted, draw_count, img_at_call,
                   busy_at_shutdown>>

(***************************************************************************)
(* ThreadedRenderer.render_furnitures_parallel                             *)
(***************************************************************************)
\* A direct call with the depth-sorted list of the scene.  Lines 42-48: an
\* empty list returns img itself, otherwise the chunks are cut.
DirectCall ==
    /\ pc = "start"
    /\ entry = "direct"
    /\ LET list == FurnitureWithDepth(furnitures, transform) IN
       /\ furniture_with_depth' = list
       /\ img_at_call' = heap[TargetImg]
       /\ IF list = <<>>
          THEN /\ pc' = "returned"
               /\ result_img' = TargetImg
               /\ UNCHANGED chunks
          ELSE /\ pc' = "dispatch"
               /\ chunks' = MakeChunks(list, num_threads)
               /\ UNCHANGED result_img
    /\ UNCHANGED <<scene_vars, heap, seq_i, futures, executor, painted, draw_count,
                   busy_at_shutdown>>

\* Lines 52-60: one iteration of the submit loop.  ThreadPoolExecutor.submit
\* raises RuntimeError once shutdown has been called.
Submit ==
    /\ pc = "dispatch"
    /\ Len(futures) < Len(chunks)
    /\ IF executor = "running"
       THEN LET c == WorkerCopy(heap, TargetImg) IN
            /\ heap' = c.heap
            /\ futures' = Append(futures,
                   [chunk |-> chunks[Len(futures) + 1], buf |-> c.id,
                    state |-> "pending", yielded |-> FALSE])
            /\ pc' = "dispatch"
       ELSE /\ pc' = "raised"
            /\ UNCHANGED <<heap, futures>>
    /\ UNCHANGED <<scene_vars, furniture_with_depth, seq_i, chunks, result_img,
                   executor, painted, draw_count, img_at_call, busy_at_shutdown>>

\* Line 63: result_img = img.copy(), after the last submit.
MergeBegin ==
    /\ pc = "dispatch"
    /\ Len(futures) = Len(chunks)
    /\ LET c == ResultCopy(heap, TargetImg) IN
       /\ heap' = c.heap
       /\ result_img' = c.id
    /\ pc' = "merge"
    /\ UNCHANGED <<scene_vars, furniture_with_depth, seq_i, chunks, futures,
                   executor, painted, draw_count, img_at_call, busy_at_shutdown>>

\* A worker thread of the pool takes the oldest pending task; the pool has
\* num_threads workers (line 29).
MayStart(i) ==
    /\ futures[i].state = "pending"
    /\ \A j \in 1..(i - 1) : futures[j].state # "pending"
    /\ Cardinality({j \in 1..Len(futures) : futures[j].state = "running"}) < num_threads

StartTask(i) ==
    /\ MayStart(i)
    /\ futures' = [futures EXCEPT ![i].state = "running"]
    /\ UNCHANGED <<scene_vars, heap, pc, furniture_with_depth, seq_i, chunks,
                   result_img, executor, painted, draw_count, img_at_call,
                   busy_at_shutdown>>

RECURSIVE CountDraws(_, _)
CountDraws(count, chunk) ==
    IF chunk = <<>> THEN count
    ELSE CountDraws([count EXCEPT ![Head(chunk).fi] = @ + 1], Tail(chunk))

\* _render_furniture_chunk runs to its end on the worker: it draws into the
\* buffer it was given and the future completes with that buffer.
FinishTask(i) ==
    /\ futures[i].state = "running"
    /\ heap' = [heap EXCEPT ![futures[i].buf] =
                   RenderFurnitureChunk(@, futures[i].chunk, furnitures, transform)]
    /\ futures' = [futures EXCEPT ![i].state = "finished"]
    /\ draw_count' = CountDraws(draw_count, futures[i].chunk)
    /\ UNCHANGED <<scene_vars, pc, furniture_with_depth, seq_i, chunks, result_img,
                   executor, painted, img_at_call, busy_at_shutdown>>

\* Lines 64-68: as_completed yields a completed future that it has not
\* yielded yet (in no fixed order) and its image is merged into result_img.
MergeNext(i) ==
    /\ pc = "merge"
    /\ futures[i].state = "finished"
    /\ ~futures[i].yielded
    /\ heap' = [heap EXCEPT ![result_img] =
                   MergeChunk(@, heap[futures[i].buf], heap[TargetImg])]
    /\ futures' = [futures EXCEPT ![i].yielded = TRUE]
    /\ UNCHANGED <<scene_vars, pc, furniture_with_depth, seq_i, chunks, result_img,
                   executor, painted, draw_count, img_at_call, busy_at_shutdown>>

\* A loop that stops after the first future yielded.
LoopEndsAfterFirst(fs) == \E i \in 1..Len(fs) : fs[i].yielded

\* The loop over as_completed(futures) ends when every future was yielded.
LoopEnds(fs) == \A i \in 1..Len(fs) : fs[i].yielded

\* Line 70: return result_img.
Return ==
    /\ pc = "merge"
    /\ LoopEnds(futures)
    /\ pc' = "returned"
    /\ UNCHANGED <<scene_vars, heap, furniture_with_depth, seq_i, chunks, futures,
                   result_img, executor, painted, draw_count, img_at_call,
                   busy_at_shutdown>>

(***************************************************************************)
(* ThreadedRenderer.shutdown / __del__                                     *)
(***************************************************************************)
Unfinished(fs) == \E i \in 1..Len(fs) : fs[i].state # "finished"

\* shutdown() is called by the owner of the renderer, at any moment: the
\* executor stops accepting tasks.
ShutdownCall ==
    /\ threaded_renderer
    /\ executor = "running"
    /\ executor' = "shutting"
    /\ busy_at_shutdown' = Unfinished(futures)
    /\ UNCHANGED <<scene_vars, heap, pc, furniture_with_depth, seq_i, chunks, futures,
                   result_img, painted, draw_count, img_at_call>>

\* executor.shutdown(wait=False): returns at once.
ShutdownNoWait(fs) == TRUE

\* executor.shutdown(wait=True) returns when the workers are joined, and a
\* worker exits only when no task is pending or running.
ShutdownMayReturn(fs) == ~Unfinished(fs)

ShutdownReturn ==
    /\ executor = "shutting"
    /\ ShutdownMayReturn(futures)
    /\ executor' = "joined"
    /\ UNCHANGED <<scene_vars, heap, pc, furniture_with_depth, seq_i, chunks, futures,
                   result_img, painted, draw_count, img_at_call, busy_at_shutdown>>

Next ==
    \/ RoomDrawBegin
    \/ SeqDraw
    \/ RoomAssign
    \/ DirectCall
    \/ Submit
    \/ MergeBegin
    \/ \E i \in 1..Len(futures) : StartTask(i)
    \/ \E i \in 1..Len(futures) : FinishTask(i)
    \/ \E i \in 1..Len(futures) : MergeNext(i)
    \/ Return
    \/ ShutdownCall
    \/ ShutdownReturn

Spec == Init /\ [][Next]_vars

(***************************************************************************)
(* Tranceform3D2D used on its own: a user sets the pose and the focal      *)
(* length and converts points.                                             *)
(***************************************************************************)
\* Coordinates of the points converted and of the camera positions.
Coords == (-MaxCoord)..MaxCoord

ProbePoints == Coords \X Coords \X {0, MaxCoord}

\* Euler angles, in degrees: the quarter turns.
Angles == {90 * k : k \in 0..MaxQuarterTurns}

Rolls == {0, 90}

CamPositions == {<<0, 0, 0>>, <<MaxCoord, -MaxCoord, 0>>}

FocalLengths == {8, 12}

\* Margins passed to is_point_visible: the default and two small ones that
\* projected points land on.
Margins == {1, 2, VisibleMargin}

\* The state after Tranceform3D2D(fx, fy, cx, cy); no frame is rendered.
CamInit ==
    /\ transform = NewTransform(8, 8, ImgWidth \div 2, ImgHeight \div 2)
    /\ cam_call = NoCall
    /\ room = TheRoom
    /\ furnitures = <<>>
    /\ threaded_renderer = FALSE
    /\ num_threads = 1
    /\ entry = "none"
    /\ heap = <<>>
    /\ pc = "idle"
    /\ furniture_with_depth = <<>>
    /\ seq_i = 0
    /\ chunks = <<>>
    /\ futures = <<>>
    /\ result_img = 0
    /\ executor = "running"
    /\ painted = <<>>
    /\ draw_count = <<>>
    /\ img_at_call = <<>>
    /\ busy_at_shutdown = FALSE
    /\ NoMouse

CamSetExternalParameter ==
    \E roll \in Rolls, pitch \in Angles, yaw \in Angles, t \in CamPositions :
        /\ transform' = SetExternalParameter(transform, roll, pitch, yaw, t[1], t[2], t[3])
        /\ cam_call' = [op |-> "set_external_parameter",
                        roll |-> roll, pitch |-> pitch, yaw |-> yaw]
        /\ UNCHANGED frame_vars

CamSetFocalLength ==
    \E f \in FocalLengths :
        /\ transform' = SetFocalLength(transform, f, f)
        /\ cam_call' = [op |-> "set_focal_length"]
        /\ UNCHANGED frame_vars

CamCvt3dTo2d ==
    \E p \in ProbePoints :
        /\ cam_call' = [op |-> "cvt_3d_to_2d", p |-> p, result |-> Cvt3dTo2d(transform, p)]
        /\ UNCHANGED <<transform, frame_vars>>

CamCvt3dTo2dWithDepth ==
    \E p \in ProbePoints :
        /\ cam_call' = [op |-> "cvt_3d_to_2d_with_depth", p |-> p,
                        result |-> Cvt3dTo2dWithDepth(transform, p)]
        /\ UNCHANGED <<transform, frame_vars>>

CamNext ==
    \/ CamSetExternalParameter
    \/ CamSetFocalLength
    \/ CamCvt3dTo2d
    \/ CamCvt3dTo2dWithDepth

CamSpec == CamInit /\ [][CamNext]_vars

(***************************************************************************)
(* One call on a posed camera: the camera is constructed, its focal length *)
(* and pose are set, and one query is made.  The queries leave the camera  *)
(* unchanged, so a second query from the same pose adds no case.           *)
(***************************************************************************)
\* Focal lengths of the posed camera: two short ones and the longest zoom.
CallFocalLengths == {8, 16, MaxFocalLength}

\* Positions and positive extents of the boxes whose faces are queried.
BoxCorners == {0, MaxCoord}

Extents == 1..(MaxCoord + 1)

\* The three places with the face loop.
DrawSites == {"furniture", "room", "chunk"}

\* Second endpoints of the segments clipped.
SegmentEnds == Coords \X {0} \X {0, MaxCoord}

\* No frame is being rendered.
NoFrame ==
    /\ room = TheRoom
    /\ threaded_renderer = FALSE
    /\ num_threads = 1
    /\ entry = "none"
    /\ heap = <<>>
    /\ pc = "idle"
    /\ furniture_with_depth = <<>>
    /\ seq_i = 0
    /\ chunks = <<>>
    /\ futures = <<>>
    /\ result_img = 0
    /\ executor = "running"
    /\ painted = <<>>
    /\ draw_count = <<>>
    /\ img_at_call = <<>>
    /\ busy_at_shutdown = FALSE
    /\ NoMouse

\* Tranceform3D2D(fx, fy, cx, cy) followed by set_external_parameter.
CallInit ==
    /\ \E f \in CallFocalLengths, roll \in Rolls, pitch \in Angles, yaw \in Angles,
          t \in CamPositions :
          transform = SetExternalParameter(
                          NewTransform(f, f, ImgWidth \div 2, ImgHeight \div 2),
                          roll, pitch, yaw, t[1], t[2], t[3])
    /\ cam_call = NoCall
    /\ furnitures = <<>>
    /\ NoFrame

CallIsPointVisible ==
    /\ cam_call = NoCall
    /\ \E p \in ProbePoints, margin \in Margins :
          cam_call' = [op |-> "is_point_visible", p |-> p, margin |-> margin,
                       result |-> IsPointVisible(transform, p, ImgWidth, ImgHeight, margin)]
    /\ UNCHANGED <<transform, frame_vars>>

CallClipLineToScreen ==
    /\ cam_call = NoCall
    /\ \E p1 \in ProbePoints, p2 \in SegmentEnds :
          cam_call' = [op |-> "clip_line_to_screen", p1 |-> p1, p2 |-> p2,
                       result |-> ClipLineToScreen(transform, p1, p2, ImgWidth, ImgHeight)]
    /\ UNCHANGED <<transform, frame_vars>>

\* The face loop body on a black frame, for a face of a catalogue furniture
\* or of the room.
CallDrawFace ==
    /\ cam_call = NoCall
    /\ \E site \in DrawSites, fi \in 1..Len(Catalogue), k \in 1..6 :
          LET f == Catalogue[fi]
              vertices == IF site = "furniture" THEN GetVertices(f) ELSE RoomVertices(room)
              idx == IF site = "furniture" THEN GetFaces[k].idx ELSE RoomFaces[k].idx
              face_color == IF site = "furniture"
                            THEN (IF f.is_selected THEN "yellow" ELSE f.color)
                            ELSE "roomgray"
              line_color == IF site = "furniture"
                            THEN (IF f.is_selected THEN "white" ELSE "dark")
                            ELSE room.color
              ops == DrawFaceOps(site, transform, vertices, idx, face_color, line_color)
          IN  cam_call' = [op |-> "draw_face", site |-> site, vertices |-> vertices,
                           idx |-> idx, face_color |-> face_color,
                           line_color |-> line_color, ops |-> ops,
                           img |-> Paint(BlankImage, ops)]
    /\ UNCHANGED <<transform, frame_vars>>

\* Furniture(...) followed by get_vertices and get_faces.
CallGetFaces ==
    /\ cam_call = NoCall
    /\ \E x \in BoxCorners, y \in BoxCorners, z \in BoxCorners,
          width \in Extents, height \in Extents, depth \in Extents :
          LET f == NewFurniture("box", x, y, z, width, height, depth, "red")
          IN  cam_call' = [op |-> "get_faces", f |-> f,
                           vertices |-> GetVertices(f), faces |-> GetFaces]
    /\ UNCHANGED <<transform, frame_vars>>

\* cvt_3d_to_2d_with_depth of a point, then the ray of _screen_to_world
\* through the pixel returned.
CallProjectUnproject ==
    /\ cam_call = NoCall
    /\ \E p \in ProbePoints :
          LET pixel == Cvt3dTo2dWithDepth(transform, p)
          IN  cam_call' = [op |-> "project_unproject", p |-> p, pixel |-> pixel,
                           ray |-> UnprojectRay(transform, pixel.x, pixel.y)]
    /\ UNCHANGED <<transform, frame_vars>>

\* Box extents handed to the constructors, the malformed ones included.
RawExtents == (-1)..(MaxCoord + 1)

\* Axis indices handed to _rotation_matrix, one below and one above the valid
\* ones.
AxisIndices == (-1)..3

\* Furniture(...): __init__ stores its arguments and has no path that raises.
CallFurnitureInit ==
    /\ cam_call = NoCall
    /\ \E width \in RawExtents, height \in RawExtents, depth \in RawExtents :
          cam_call' = [op |-> "Furniture", raised |-> FALSE,
                       obj |-> NewFurniture("box", 0, 0, 0, width, height, depth, "red")]
    /\ UNCHANGED <<transform, frame_vars>>

\* Room(...): __init__ stores its arguments and has no path that raises.
CallRoomInit ==
    /\ cam_call = NoCall
    /\ \E width \in RawExtents, depth \in RawExtents, height \in RawExtents :
          cam_call' = [op |-> "Room", raised |-> FALSE,
                       obj |-> NewRoom(width, depth, height, "gray")]
    /\ UNCHANGED <<transform, frame_vars>>

CallRotationMatrix ==
    /\ cam_call = NoCall
    /\ \E angle \in Angles, axis \in AxisIndices :
          cam_call' = [op |-> "_rotation_matrix", angle |-> angle, axis |-> axis,
                       result |-> RotationMatrix(angle, axis)]
    /\ UNCHANGED <<transform, frame_vars>>

\* The precision settings of the designer: the default grid of the
\* configuration, a grid of two units, and rounding to whole units.
Precisions ==
    {NewPrecision("decimal_1", TRUE, GridSnapSize),
     NewPrecision("decimal_1", TRUE, 4),
     NewPrecision("integer", FALSE, GridSnapSize),
     NewPrecision("full", FALSE, GridSnapSize)}

\* The furnitures moved: those of the catalogue and a shelf above the floor.
Movables == {Catalogue[i] : i \in 1..Len(Catalogue)}
            \cup {NewFurniture("shelf", 0, 0, 1, 2, 1, 1, "brown")}

\* Furniture.move_to on its own.
CallMoveTo ==
    /\ cam_call = NoCall
    /\ \E f \in Movables, x \in 0..3, y \in {0, 3},
          precision \in Precisions \cup {NoPrecision} :
          cam_call' = [op |-> "move_to", f |-> f, x |-> x, y |-> y,
                       precision |-> precision, result |-> MoveTo(f, x, y, precision)]
    /\ UNCHANGED <<transform, frame_vars>>

\* The places that call cvt_3d_to_2d: the face loops of Furniture.draw,
\* Room.draw and _render_face_chunk, the name in Furniture.draw, and
\* is_point_inside_2d.
ProjectingSites == DrawSites \cup {"label", "inside"}

\* The points cvt_3d_to_2d is called on at a site, for a catalogue furniture
\* or the room and one of its faces, each with what the call returns.
CallProjectAtSite ==
    /\ cam_call = NoCall
    /\ \E site \in ProjectingSites, fi \in 1..Len(Catalogue), k \in 1..6 :
          LET f == Catalogue[fi]
              points == IF site = "room"
                        THEN FaceLoopCalls(transform, RoomVertices(room), RoomFaces[k].idx)
                        ELSE IF site = "label" THEN LabelCalls(f, transform)
                        ELSE IF site = "inside" THEN FloorCalls(f, transform, 1)
                        ELSE FaceLoopCalls(transform, GetVertices(f), GetFaces[k].idx)
          IN  cam_call' = [op |-> "cvt_3d_to_2d calls", site |-> site,
                           calls |-> [j \in 1..Len(points) |->
                                        [p |-> points[j],
                                         result |-> Cvt3dTo2d(transform, points[j])]]]
    /\ UNCHANGED <<transform, frame_vars>>

CallNext ==
    \/ CallIsPointVisible
    \/ CallClipLineToScreen
    \/ CallDrawFace
    \/ CallGetFaces
    \/ CallProjectUnproject
    \/ CallFurnitureInit
    \/ CallRoomInit
    \/ CallRotationMatrix
    \/ CallMoveTo
    \/ CallProjectAtSite

CallSpec == CallInit /\ [][CallNext]_vars

(***************************************************************************)
(* Picking: a room is furnished, the camera is posed, and the mouse        *)
(* handler looks for the furniture under a screen point.                   *)
(***************************************************************************)
\* The poses of the frames and a view from the room centre towards the wall
\* x = 0.
PickPoses == Poses \cup {[roll |-> 0, pitch |-> 0, yaw |-> 0, t |-> <<4, 4, 2>>]}

\* Focal lengths: the one of the frames and a wide angle.
PickFocalLengths == {2, 8}

\* The catalogue and a long sideboard along the wall x = 0.
PickCatalogue == Catalogue \o <<NewFurniture("e", 0, 0, 0, 8, 2, 2, "brown")>>

\* room.furnitures: up to two different furnitures, in either order.
PickScenes ==
    {<<>>}
    \cup {<<PickCatalogue[i]>> : i \in 1..Len(PickCatalogue)}
    \cup {<<PickCatalogue[ij[1]], PickCatalogue[ij[2]]>> :
             ij \in {p \in (1..Len(PickCatalogue)) \X (1..Len(PickCatalogue)) :
                        p[1] # p[2]}}

PickInit ==
    /\ \E pose \in PickPoses, f \in PickFocalLengths :
          transform =
              SetExternalParameter(
                  NewTransform(f, f, ImgWidth \div 2, ImgHeight \div 2),
                  pose.roll, pose.pitch, pose.yaw, pose.t[1], pose.t[2], pose.t[3])
    /\ furnitures \in PickScenes
    /\ cam_call = NoCall
    /\ NoFrame

\* Room.find_furniture_at_point at a pixel of the frame.
PickFindFurnitureAtPoint ==
    /\ cam_call = NoCall
    /\ \E q \in Pixels :
          cam_call' = [op |-> "find_furniture_at_point", px |-> q[1], py |-> q[2],
                       result |-> FindFurnitureAtPoint(furnitures, q[1], q[2], transform)]
    /\ UNCHANGED <<transform, frame_vars>>

\* RoomDesigner._screen_to_world at a pixel of the frame.
PickScreenToWorld ==
    /\ cam_call = NoCall
    /\ \E q \in Pixels :
          cam_call' = [op |-> "screen_to_world", screen_x |-> q[1], screen_y |-> q[2],
                       result |-> ScreenToWorld(transform, q[1], q[2])]
    /\ UNCHANGED <<transform, frame_vars>>

PickNext ==
    \/ PickFindFurnitureAtPoint
    \/ PickScreenToWorld

PickSpec == PickInit /\ [][PickNext]_vars

(***************************************************************************)
(* The designer window: RoomDesigner._mouse_callback hands each mouse      *)
(* event to MouseController.handle_mouse_event and applies the result; the *)
(* key handler zooms; the run loop hands the focal length to the camera.   *)
(* The hit test and the unprojection are callbacks of handle_mouse_event:  *)
(* their results are inputs here.  The camera coordinates the drag modes   *)
(* write into the result do not feed back into the controller and are left *)
(* out; camera_updated tells that they were written.                       *)
(***************************************************************************)
\* min(current + zoom_step, max_focal_length) without the min.
ZoomInUnclamped(focal_length, zoom_step, max_focal_length) == focal_length + zoom_step

\* mouse_controller.py line 386, keyboard_controller.py line 132
ZoomIn(focal_length, zoom_step, max_focal_length) ==
    Min(focal_length + zoom_step, max_focal_length)

\* mouse_controller.py line 389, keyboard_controller.py line 136
ZoomOut(focal_length, zoom_step, min_focal_length) ==
    Max(focal_length - zoom_step, min_focal_length)

\* screen_to_world returned None.
WorldNone == [none |-> TRUE, x |-> 0, y |-> 0]

\* _handle_left_button_down; furniture is the index the hit test returned
\* (0: None).
HandleLeftButtonDown(mc, shift_pressed, furniture, click_world_pos, fs, result) ==
    IF mc.view_rotating
    THEN [mc |-> [mc EXCEPT !.both_buttons_moving = TRUE,
                            !.view_rotating = FALSE,
                            !.ue5_camera_moving = FALSE,
                            !.furniture_dragging = FALSE],
          result |-> result]
    ELSE IF ~shift_pressed /\ furniture # 0
    THEN [mc |-> IF click_world_pos.none
                 THEN [mc EXCEPT !.furniture_dragging = TRUE]
                 ELSE [mc EXCEPT !.furniture_dragging = TRUE,
                                 !.furniture_drag_offset_x = fs[furniture].x - click_world_pos.x,
                                 !.furniture_drag_offset_y = fs[furniture].y - click_world_pos.y],
          result |-> [result EXCEPT
                        !.furniture_action = "select",
                        !.selected_furniture = furniture,
                        !.drag_offset =
                            IF click_world_pos.none THEN <<>>
                            ELSE <<fs[furniture].x - click_world_pos.x,
                                   fs[furniture].y - click_world_pos.y>>]]
    ELSE [mc |-> [mc EXCEPT !.ue5_camera_moving = TRUE], result |-> result]

\* _handle_middle_button_down
HandleMiddleButtonDown(mc, result) ==
    [mc |-> [mc EXCEPT !.camera_panning = TRUE], result |-> result]

\* _handle_mouse_move
HandleMouseMove(mc, world_pos, result) ==
    IF mc.both_buttons_moving
    THEN [mc |-> mc, result |-> [result EXCEPT !.camera_updated = TRUE]]
    ELSE IF mc.furniture_dragging
    THEN [mc |-> mc,
          result |-> IF world_pos.none THEN result
                     ELSE [result EXCEPT
                             !.furniture_action = "drag",
                             !.drag_position = <<world_pos.x + mc.furniture_drag_offset_x,
                                                 world_pos.y + mc.furniture_drag_offset_y>>]]
    ELSE IF mc.ue5_camera_moving \/ mc.camera_panning \/ mc.view_rotating
    THEN [mc |-> mc, result |-> [result EXCEPT !.camera_updated = TRUE]]
    ELSE [mc |-> mc, result |-> result]

\* _handle_left_button_up
HandleLeftButtonUp(mc, result) ==
    IF mc.both_buttons_moving
    THEN [mc |-> [mc EXCEPT !.both_buttons_moving = FALSE, !.view_rotating = TRUE],
          result |-> result]
    ELSE [mc |-> [mc EXCEPT !.furniture_dragging = FALSE, !.ue5_camera_moving = FALSE],
          result |-> IF mc.furniture_dragging
                     THEN [result EXCEPT !.furniture_action = "drop"]
                     ELSE result]

\* _handle_right_button_down without the switch to the two-button mode.
HandleRightButtonDownKeepsModes(mc, result) ==
    [mc |-> [mc EXCEPT !.view_rotating = TRUE], result |-> result]

\* _handle_right_button_down
HandleRightButtonDown(mc, result) ==
    IF mc.ue5_camera_moving \/ mc.furniture_dragging
    THEN [mc |-> [mc EXCEPT !.both_buttons_moving = TRUE,
                            !.ue5_camera_moving = FALSE,
                            !.furniture_dragging = FALSE,
                            !.view_rotating = FALSE],
          result |-> result]
    ELSE [mc |-> [mc EXCEPT !.view_rotating = TRUE], result |-> result]

\* _handle_right_button_up
HandleRightButtonUp(mc, result) ==
    IF mc.both_buttons_moving
    THEN [mc |-> [mc EXCEPT !.both_buttons_moving = FALSE, !.ue5_camera_moving = TRUE],
          result |-> result]
    ELSE [mc |-> [mc EXCEPT !.view_rotating = FALSE], result |-> result]

\* _handle_middle_button_up
HandleMiddleButtonUp(mc, result) ==
    [mc |-> [mc EXCEPT !.camera_panning = FALSE], result |-> result]

\* _handle_mouse_wheel; delta = flags >> 16
HandleMouseWheel(mc, d, delta, result) ==
    [mc |-> mc,
     result |-> [result EXCEPT
                   !.focal_length =
                       IF delta > 0
                       THEN ZoomIn(result.focal_length, d.zoom_step, d.max_focal_length)
                       ELSE ZoomOut(result.focal_length, d.zoom_step, d.min_focal_length),
                   !.camera_updated = TRUE]]

\* _mouse_callback, the 'drag' branch: the position is limited to the room
\* and the selected furniture is moved there.
DragTo(f, rm, drag_position, precision) ==
    LET world_x == Max(0, Min(drag_position[1], rm.width - f.width))
        world_y == Max(0, Min(drag_position[2], rm.depth - f.depth))
    IN  MoveTo(f, world_x, world_y, precision)

\* _mouse_callback after handle_mouse_event returned: the camera state is
\* taken over and the furniture action is carried out.
ApplyResult(d, fs, rm, result) ==
    LET d1 == IF result.camera_updated
              THEN [d EXCEPT !.focal_length = result.focal_length]
              ELSE d
    IN  IF result.furniture_action = "select"
        THEN LET fs1 == IF d.selected_furniture # 0
                        THEN [fs EXCEPT ![d.selected_furniture].is_selected = FALSE]
                        ELSE fs
             IN  IF result.selected_furniture # 0
                 THEN [designer |-> [d1 EXCEPT !.selected_furniture = result.selected_furniture],
                       furnitures |-> [fs1 EXCEPT ![result.selected_furniture].is_selected = TRUE]]
                 ELSE [designer |-> d1, furnitures |-> fs1]
        ELSE IF result.furniture_action = "drag"
                /\ d.selected_furniture # 0 /\ result.drag_position # <<>>
        THEN [designer |-> d1,
              furnitures |-> [fs EXCEPT ![d.selected_furniture] =
                                DragTo(fs[d.selected_furniture], rm,
                                       result.drag_position, d.precision)]]
        ELSE [designer |-> d1, furnitures |-> fs]

\* The zoom steps of the designer: the default step and two coarse ones.
ZoomSteps == {ZoomStep, 900, 1800}

\* The zoom step while furnitures are dragged: one step reaches either end
\* of the zoom range.
CoarseZoomSteps == {1800}

\* Precision settings of the designer: a grid of two units, and rounding to
\* whole units without a grid.
DesignerPrecisions ==
    {NewPrecision("decimal_1", TRUE, 4), NewPrecision("integer", FALSE, GridSnapSize)}

\* The floor points screen_to_world returns, in halves of the unit.
WorldPositions ==
    {[none |-> FALSE, x |-> w[1], y |-> w[2]] : w \in {<<5, 3>>, <<9, 9>>}}

\* The furnitures of the designer's room: a cabinet and a bench that is
\* deeper than it is wide, both inside the room.
DesignerScene ==
    << NewFurniture("cabinet", 2, 2, 0, 2, 4, 2, "navy"),
       NewFurniture("bench", 4, 0, 0, 2, 2, 4, "teal") >>

\* Everything of a frame but the furnitures: no frame is rendered while the
\* events are handled.
render_vars ==
    <<room, threaded_renderer, num_threads, entry, heap, pc, furniture_with_depth,
      seq_i, chunks, futures, result_img, executor, painted, draw_count,
      img_at_call, busy_at_shutdown>>

\* RoomDesigner.__init__ with a zoom step and a precision of the sets given.
DesignerInit(zoom_steps, precisions) ==
    /\ transform = NewTransform(FocalLength, FocalLength, ImgWidth \div 2, ImgHeight \div 2)
    /\ cam_call = NoCall
    /\ room = TheRoom
    /\ furnitures = DesignerScene
    /\ threaded_renderer = FALSE
    /\ num_threads = 1
    /\ entry = "none"
    /\ heap = <<>>
    /\ pc = "idle"
    /\ furniture_with_depth = <<>>
    /\ seq_i = 0
    /\ chunks = <<>>
    /\ futures = <<>>
    /\ result_img = 0
    /\ executor = "running"
    /\ painted = <<>>
    /\ draw_count = <<>>
    /\ img_at_call = <<>>
    /\ busy_at_shutdown = FALSE
    /\ mouse_controller = NewMouseController
    /\ \E zoom_step \in zoom_steps, precision \in precisions :
          designer = NewDesigner(FocalLength, zoom_step, precision)
    /\ mouse_held = {}
    /\ mouse_result = NewResult("none", FocalLength)
    /\ drag_history = "idle"

MouseInit == DesignerInit(CoarseZoomSteps, DesignerPrecisions)

\* _mouse_callback for one event, given what handle_mouse_event returned.
MouseCallback(out) ==
    LET applied == ApplyResult(designer, furnitures, room, out.result)
    IN  /\ mouse_controller' = out.mc
        /\ mouse_result' = out.result
        /\ designer' = applied.designer
        /\ furnitures' = applied.furnitures
        /\ drag_history' =
              IF out.result.furniture_action = "select" THEN "selected"
              ELSE IF out.result.event = "LBUTTONUP"
              THEN (IF drag_history = "selected" THEN "released" ELSE "idle")
              ELSE IF drag_history = "released" THEN "idle"
              ELSE drag_history
        /\ UNCHANGED <<transform, cam_call, render_vars>>

MouseLeftButtonDown ==
    /\ "left" \notin mouse_held
    /\ mouse_held' = mouse_held \cup {"left"}
    /\ \E shift_pressed \in BOOLEAN, furniture \in 0..Len(furnitures),
          click_world_pos \in WorldPositions \cup {WorldNone} :
          MouseCallback(HandleLeftButtonDown(mouse_controller, shift_pressed, furniture,
                                             click_world_pos, furnitures,
                                             NewResult("LBUTTONDOWN", designer.focal_length)))

MouseMiddleButtonDown ==
    /\ "middle" \notin mouse_held
    /\ mouse_held' = mouse_held \cup {"middle"}
    /\ MouseCallback(HandleMiddleButtonDown(mouse_controller,
                                            NewResult("MBUTTONDOWN", designer.focal_length)))

MouseMove ==
    /\ mouse_held' = mouse_held
    /\ \E world_pos \in WorldPositions \cup {WorldNone} :
          MouseCallback(HandleMouseMove(mouse_controller, world_pos,
                                        NewResult("MOUSEMOVE", designer.focal_length)))

MouseLeftButtonUp ==
    /\ "left" \in mouse_held
    /\ mouse_held' = mouse_held \ {"left"}
    /\ MouseCallback(HandleLeftButtonUp(mouse_controller,
                                        NewResult("LBUTTONUP", designer.focal_length)))

MouseRightButtonDown ==
    /\ "right" \notin mouse_held
    /\ mouse_held' = mouse_held \cup {"right"}
    /\ MouseCallback(HandleRightButtonDown(mouse_controller,
                                           NewResult("RBUTTONDOWN", designer.focal_length)))

MouseRightButtonUp ==
    /\ "right" \in mouse_held
    /\ mouse_held' = mouse_held \ {"right"}
    /\ MouseCallback(HandleRightButtonUp(mouse_controller,
                                         NewResult("RBUTTONUP", designer.focal_length)))

MouseMiddleButtonUp ==
    /\ "middle" \in mouse_held
    /\ mouse_held' = mouse_held \ {"middle"}
    /\ MouseCallback(HandleMiddleButtonUp(mouse_controller,
                                          NewResult("MBUTTONUP", designer.focal_length)))

MouseWheel ==
    /\ mouse_held' = mouse_held
    /\ \E delta \in {-1, 1} :
          MouseCallback(HandleMouseWheel(mouse_controller, designer, delta,
                                         NewResult("MOUSEWHEEL", designer.focal_length)))

\* The 'z' and 'x' keys.
KeyZoom ==
    /\ \E key \in {"z", "x"} :
          designer' =
              [designer EXCEPT !.focal_length =
                 IF key = "z"
                 THEN ZoomIn(designer.focal_length, designer.zoom_step,
                             designer.max_focal_length)
                 ELSE ZoomOut(designer.focal_length, designer.zoom_step,
                              designer.min_focal_length)]
    /\ UNCHANGED <<transform, cam_call, furnitures, render_vars, mouse_controller,
                   mouse_held, mouse_result, drag_history>>

\* The run loop of the designer hands the focal length to the camera before
\* it draws the frame.
RunSetFocalLength ==
    /\ transform' = SetFocalLength(transform, designer.focal_length, designer.focal_length)
    /\ cam_call' = [op |-> "set_focal_length", fx |-> designer.focal_length,
                    fy |-> designer.focal_length]
    /\ UNCHANGED <<furnitures, render_vars, mouse_vars>>

MouseNext ==
    \/ MouseLeftButtonDown
    \/ MouseMiddleButtonDown
    \/ MouseMove
    \/ MouseLeftButtonUp
    \/ MouseRightButtonDown
    \/ MouseRightButtonUp
    \/ MouseMiddleButtonUp
    \/ MouseWheel

MouseSpec == MouseInit /\ [][MouseNext]_vars

(***************************************************************************)
(* Zooming: wheel events, the zoom keys and the run loop, which hands the  *)
(* focal length to the camera.                                             *)
(***************************************************************************)
ZoomInit == DesignerInit(ZoomSteps, DesignerPrecisions)

ZoomNext ==
    \/ MouseWheel
    \/ KeyZoom
    \/ RunSetFocalLength

ZoomSpec == ZoomInit /\ [][ZoomNext]_vars

(***************************************************************************)
(* Properties                                                              *)
(***************************************************************************)
\* The centroid depth Room.draw sorts the furnitures by.
CentroidDepth(f, tr) ==
    CamForward(tr, <<f.x + f.depth \div 2, f.y + f.width \div 2, f.z + f.height \div 2>>)

\* C1: the image render_furnitures_parallel returns equals the image obtained
\* by drawing the same depth-sorted list sequentially, farthest first, into
\* the image it was called with.
C1_ParallelEqualsSequential ==
    pc = "returned" =>
        heap[result_img] =
            RenderFurnitureChunk(img_at_call, furniture_with_depth, furnitures, transform)

\* C2: the merged image does not depend on the order in which the futures
\* complete: it is the image the merge produces when the futures are yielded
\* in the order of submission (pixel by pixel, the colour of the last chunk,
\* in that order, whose image differs from img there).
C2_MergeOrderIndependent ==
    pc = "returned" =>
        \A q \in Pixels :
            LET changed == {k \in 1..Len(futures) :
                               heap[futures[k].buf][q] # img_at_call[q]}
            IN  heap[result_img][q] =
                    IF changed = {} THEN img_at_call[q]
                    ELSE heap[futures[CHOOSE k \in changed :
                                          \A j \in changed : j <= k].buf][q]

\* A step of the dispatch or merge phase writes only where it may.
WritesOnlyOwnBuffer ==
    pc \in {"dispatch", "merge"} =>
          /\ heap'[TargetImg] = heap[TargetImg]
          /\ \A b \in 1..Len(heap) :
                heap'[b] # heap[b] =>
                    \/ /\ pc = "merge"
                       /\ b = result_img
                       /\ b # TargetImg
                    \/ \E i \in 1..Len(futures) :
                          /\ futures[i].buf = b
                          /\ futures[i].state = "running"
                          /\ futures'[i].state = "finished"
                          /\ b # result_img
                          /\ \A j \in 1..Len(futures) :
                                j # i => futures[j].buf # b

\* C3: while render_furnitures_parallel dispatches and merges, no step changes
\* the target image, and a step changes a buffer only if it is the merge
\* writing result_img or a task finishing its drawing in its own buffer, which
\* no other task has and which is neither the target image nor result_img.
C3_WorkersDrawPrivateCopies == [][WritesOnlyOwnBuffer]_vars

\* A worker finished drawing while the render thread was still dispatching.
C3_Witness ==
    /\ pc = "dispatch"
    /\ \E i \in 1..Len(futures) :
          /\ futures[i].state = "finished"
          /\ heap[futures[i].buf] # img_at_call

\* C4: when render_furnitures_parallel has returned, every chunk was
\* submitted and every submitted task has finished.
C4_ReturnAfterAllTasks ==
    pc = "returned" =>
        /\ Len(futures) = Len(chunks)
        /\ \A i \in 1..Len(futures) : futures[i].state = "finished"

C4_Witness == pc = "returned" /\ Len(futures) >= 3

\* C5: when shutdown has returned, no submitted task is pending or running.
C5_ShutdownDrains ==
    executor = "joined" => \A i \in 1..Len(futures) : futures[i].state = "finished"

\* shutdown was called while a task was unfinished, and has returned.
C5_Witness == executor = "joined" /\ busy_at_shutdown

RECURSIVE Concat(_)
Concat(seqs) == IF seqs = <<>> THEN <<>> ELSE Head(seqs) \o Concat(Tail(seqs))

\* C6: the chunks are non-empty, of size max(1, count div num_threads) except
\* a possibly shorter last one, and their concatenation is the list; when the
\* call returns every entry was in the chunk of exactly one task and every
\* furniture of the list was drawn exactly once.
C6_ChunksPartition ==
    /\ chunks # <<>> =>
          LET size == Max(1, Len(furniture_with_depth) \div num_threads) IN
          /\ \A j \in 1..Len(chunks) :
                /\ chunks[j] # <<>>
                /\ Len(chunks[j]) <= size
                /\ j < Len(chunks) => Len(chunks[j]) = size
          /\ Concat(chunks) = furniture_with_depth
    /\ (pc = "returned" /\ chunks # <<>>) =>
          /\ \A p \in 1..Len(furniture_with_depth) :
                Cardinality({jm \in {<<j, m>> \in (1..Len(futures)) \X (1..Len(furniture_with_depth)) :
                                        m <= Len(futures[j].chunk)} :
                                futures[jm[1]].chunk[jm[2]] = furniture_with_depth[p]}) = 1
          /\ \A p \in 1..Len(furniture_with_depth) :
                draw_count[furniture_with_depth[p].fi] = 1

\* A call returned whose list does not divide evenly: the last chunk is
\* shorter than the others.
C6_Witness ==
    /\ pc = "returned"
    /\ Len(chunks) >= 2
    /\ Len(chunks[Len(chunks)]) < Len(chunks[1])

\* C7: Room.draw with fewer than ParallelThreshold furnitures to draw, or
\* without a threaded renderer, submits no task and draws every furniture of
\* the list on the render thread; tasks are submitted only with a renderer and
\* at least ParallelThreshold furnitures.
C7_SequentialBelowThreshold ==
    (entry = "room_draw" /\ pc \in {"done", "early_return"}) =>
        LET list == FurnitureWithDepth(furnitures, transform) IN
        /\ (~threaded_renderer \/ Len(list) < ParallelThreshold) =>
              /\ futures = <<>>
              /\ painted = [p \in 1..Len(list) |-> list[p].fi]
        /\ futures # <<>> => (threaded_renderer /\ Len(list) >= ParallelThreshold)

\* C8: the render thread paints the furnitures farthest first, and every
\* furniture and the room paint their faces farthest first: of two painted
\* primitives the one painted later is never the one of strictly larger
\* centroid depth.
C8_FarthestFirst ==
    /\ \A i \in 1..Len(painted) : \A j \in 1..Len(painted) :
          i < j => CentroidDepth(furnitures[painted[i]], transform)
                   >= CentroidDepth(furnitures[painted[j]], transform)
    /\ \A fi \in 1..Len(furnitures) :
          draw_count[fi] > 0 =>
              LET faces == FurnitureFacesPainted(furnitures[fi], transform)
                  v == GetVertices(furnitures[fi])
              IN  \A i \in 1..Len(faces) : \A j \in 1..Len(faces) :
                     i < j => CamForward(transform, FaceCenter(v, faces[i].idx))
                              >= CamForward(transform, FaceCenter(v, faces[j].idx))
    /\ pc # "start" =>
          LET faces == RoomFacesPainted(room, transform)
              v == RoomVertices(room)
          IN  \A i \in 1..Len(faces) : \A j \in 1..Len(faces) :
                 i < j => CamForward(transform, FaceCenter(v, faces[i].idx))
                          >= CamForward(transform, FaceCenter(v, faces[j].idx))

\* Two furnitures of different depth were painted by the sequential loop, the
\* nearer one being the earlier one in room.furnitures.
C8_Witness ==
    /\ pc = "done"
    /\ \E i \in 1..Len(painted) : \E j \in 1..Len(painted) :
          /\ i < j
          /\ painted[i] > painted[j]
          /\ CentroidDepth(furnitures[painted[i]], transform)
             > CentroidDepth(furnitures[painted[j]], transform)

\* C9: cvt_3d_to_2d returns a screen coordinate, without raising, for every
\* point and pose, the points of depth 0 and of negative depth included.
C9_ProjectNeverRaises ==
    cam_call.op = "cvt_3d_to_2d" => ~cam_call.result.raised

\* C10: cvt_3d_to_2d_with_depth returns the sentinel coordinate with the
\* point's depth when the depth is not positive, and otherwise the screen
\* coordinate cvt_3d_to_2d returns, with the depth.
C10_SentinelOrProjection ==
    cam_call.op = "cvt_3d_to_2d_with_depth" =>
        LET depth == CamForward(transform, cam_call.p)
            project == Cvt3dTo2d(transform, cam_call.p)
        IN  /\ cam_call.result.depth = depth
            /\ depth <= 0 =>
                  /\ cam_call.result.x = BehindSentinel
                  /\ cam_call.result.y = BehindSentinel
            /\ depth > 0 =>
                  /\ ~project.raised
                  /\ cam_call.result.x = project.x
                  /\ cam_call.result.y = project.y

\* A point behind a turned camera was converted.
C10_Witness ==
    /\ cam_call.op = "cvt_3d_to_2d_with_depth"
    /\ cam_call.result.depth < 0
    /\ cam_call.result.x = BehindSentinel
    /\ transform.R # Identity3

\* C11: is_point_visible answers true exactly when the point's depth is
\* positive and its projected pixel (x, y) satisfies -margin <= x <= width +
\* margin and -margin <= y <= height + margin, both ends included.
C11_VisibleIffInFrontAndInMargin ==
    cam_call.op = "is_point_visible" =>
        LET depth == CamForward(transform, cam_call.p)
            x == Perspective(transform.fx, CamRight(transform, cam_call.p), depth, transform.cx)
            y == Perspective(transform.fy, CamDown(transform, cam_call.p), depth, transform.cy)
        IN  cam_call.result <=>
                /\ depth > 0
                /\ -cam_call.margin <= x /\ x <= ImgWidth + cam_call.margin
                /\ -cam_call.margin <= y /\ y <= ImgHeight + cam_call.margin

\* A point in front of the camera whose pixel lies exactly on the margin
\* bound was found visible.
C11_Witness ==
    /\ cam_call.op = "is_point_visible"
    /\ cam_call.result
    /\ LET r == Cvt3dTo2dWithDepth(transform, cam_call.p)
       IN  \/ r.x = -cam_call.margin
           \/ r.x = ImgWidth + cam_call.margin
           \/ r.y = -cam_call.margin
           \/ r.y = ImgHeight + cam_call.margin

\* The pixel of the point of the segment p1 p2 whose depth is 0.1, for depths
\* d1 # d2: with t = (0.1 - d1) / (d2 - d1) the point's right component times
\* 10 is (10 * r1 * (d2 - d1) + (1 - 10 * d1) * (r2 - r1)) / (d2 - d1), and
\* the division by the depth 0.1 is the multiplication by 10.
ThresholdPixel(tr, p1, p2) ==
    LET d1 == CamForward(tr, p1)
        d2 == CamForward(tr, p2)
        at(a1, a2) == 10 * a1 * (d2 - d1) + (1 - 10 * d1) * (a2 - a1)
    IN  << IntTrunc(tr.fx * at(CamRight(tr, p1), CamRight(tr, p2)) + tr.cx * (d2 - d1),
                    d2 - d1),
           IntTrunc(tr.fy * at(CamDown(tr, p1), CamDown(tr, p2)) + tr.cy * (d2 - d1),
                    d2 - d1) >>

\* The pixel, each coordinate limited to [-10000, size + 10000].
ClampedPixel(px) ==
    << Clamp(px[1], -ClipMargin, ImgWidth + ClipMargin),
       Clamp(px[2], -ClipMargin, ImgHeight + ClipMargin) >>

\* C12 as stated: clip_line_to_screen returns None when both endpoints have
\* depth <= 0, and when exactly one has, None or a segment whose endpoint on
\* that side is the projection of the point of the segment at depth 0.1.
C12_BehindEndpointReplaced ==
    cam_call.op = "clip_line_to_screen" =>
        LET d1 == CamForward(transform, cam_call.p1)
            d2 == CamForward(transform, cam_call.p2)
            px == ThresholdPixel(transform, cam_call.p1, cam_call.p2)
        IN  /\ (d1 <= 0 /\ d2 <= 0) => cam_call.result = "None"
            /\ (d1 <= 0 /\ d2 > 0) =>
                  \/ cam_call.result = "None"
                  \/ cam_call.result[1] = px
            /\ (d1 > 0 /\ d2 <= 0) =>
                  \/ cam_call.result = "None"
                  \/ cam_call.result[2] = px

\* C12, amended: the endpoint that replaces the one of depth <= 0 is the
\* projection of the point at depth 0.1 with each coordinate limited to
\* [-10000, size + 10000]; no endpoint of a returned segment is the pixel
\* returned for a point of depth <= 0.
C12_BehindEndpointReplacedClamped ==
    cam_call.op = "clip_line_to_screen" =>
        LET d1 == CamForward(transform, cam_call.p1)
            d2 == CamForward(transform, cam_call.p2)
            px == ClampedPixel(ThresholdPixel(transform, cam_call.p1, cam_call.p2))
        IN  /\ (d1 <= 0 /\ d2 <= 0) => cam_call.result = "None"
            /\ (d1 <= 0 /\ d2 > 0) =>
                  \/ cam_call.result = "None"
                  \/ cam_call.result[1] = px
            /\ (d1 > 0 /\ d2 <= 0) =>
                  \/ cam_call.result = "None"
                  \/ cam_call.result[2] = px

\* A segment whose second endpoint is behind the camera was returned, and the
\* pixel of its point at depth 0.1 lies outside the limits.
C12_Witness ==
    /\ cam_call.op = "clip_line_to_screen"
    /\ CamForward(transform, cam_call.p1) > 0
    /\ CamForward(transform, cam_call.p2) <= 0
    /\ cam_call.result # "None"
    /\ LET px == ThresholdPixel(transform, cam_call.p1, cam_call.p2)
       IN  ClampedPixel(px) # px

\* The vertices of the face that pass is_point_visible.
VisibleVertices(tr, vertices, idx) ==
    {k \in 1..Len(idx) :
        IsPointVisible(tr, vertices[idx[k] + 1], ImgWidth, ImgHeight, VisibleMargin)}

\* C13: a face is drawn all or nothing.  When one of its vertices fails
\* is_point_visible no drawing call is made for the face and the image keeps
\* its pixels; otherwise the polygon of all its projected vertices is filled
\* and outlined, and nothing else is drawn.
C13_FaceAllOrNothing ==
    cam_call.op = "draw_face" =>
        LET visible == VisibleVertices(transform, cam_call.vertices, cam_call.idx)
            pts == [k \in 1..Len(cam_call.idx) |->
                       LET pt == Cvt3dTo2d(transform, cam_call.vertices[cam_call.idx[k] + 1])
                       IN  <<pt.x, pt.y>>]
        IN  IF visible = 1..Len(cam_call.idx)
            THEN /\ Len(cam_call.ops) = 2
                 /\ cam_call.ops[1].kind = "fill"
                 /\ cam_call.ops[1].pts = pts
                 /\ cam_call.ops[2] = Polylines(pts, cam_call.line_color)
                 /\ cam_call.site # "chunk" =>
                        cam_call.ops = PaintFaces(transform, cam_call.vertices,
                                                  <<[idx |-> cam_call.idx]>>,
                                                  cam_call.face_color, cam_call.line_color)
            ELSE /\ cam_call.ops = <<>>
                 /\ cam_call.img = BlankImage

\* The first three vertices of a face passed is_point_visible and the fourth
\* did not: the face was skipped.
C13_Witness ==
    /\ cam_call.op = "draw_face"
    /\ VisibleVertices(transform, cam_call.vertices, cam_call.idx) = 1..3
    /\ cam_call.ops = <<>>

\* Eight times the vector from the centre of the box to the centre of the
\* face: the factor clears the halves of the box centre and the quarters of
\* the face centre.
CentreToFace8(f, vertices, idx) ==
    LET sum(k) == vertices[idx[1] + 1][k] + vertices[idx[2] + 1][k]
                  + vertices[idx[3] + 1][k] + vertices[idx[4] + 1][k]
    IN  << 2 * sum(1) - 4 * (2 * f.x + f.depth),
           2 * sum(2) - 4 * (2 * f.y + f.width),
           2 * sum(3) - 4 * (2 * f.z + f.height) >>

\* C14: each of the 6 faces get_faces returns for a box with positive
\* extents has a unit normal, its four vertices lie in one plane
\* perpendicular to the normal, and the normal points from the centre of the
\* box towards the face.
C14_FurnitureNormalsOutward ==
    cam_call.op = "get_faces" =>
        /\ Len(cam_call.faces) = 6
        /\ \A i \in 1..Len(cam_call.faces) :
              LET face == cam_call.faces[i]
                  v(k) == cam_call.vertices[face.idx[k] + 1]
              IN  /\ Dot(face.normal, face.normal) = 1
                  /\ \A k \in 2..4 : Dot(face.normal, VecSub(v(k), v(1))) = 0
                  /\ Dot(face.normal,
                         CentreToFace8(cam_call.f, cam_call.vertices, face.idx)) > 0

\* The camera position lies strictly inside the room.
CameraInsideRoom(r, tr) ==
    LET camera_pos == GetCameraPosition(tr)
    IN  /\ 0 < camera_pos[1] /\ camera_pos[1] < r.depth
        /\ 0 < camera_pos[2] /\ camera_pos[2] < r.width
        /\ 0 < camera_pos[3] /\ camera_pos[3] < r.height

\* C15: Room.draw has built its faces.  Each of the 6 faces carries a normal
\* that points from the face towards the interior of the room, and for a
\* camera inside the room the back-face cull rejects none of them.
C15_RoomNormalsInward ==
    (entry = "room_draw" /\ pc # "start") =>
        /\ Len(RoomFaces) = 6
        /\ \A i \in 1..Len(RoomFaces) :
              LET face_center == FaceCenter(RoomVertices(room), RoomFaces[i].idx)
                  room_centre == <<room.depth \div 2, room.width \div 2, room.height \div 2>>
              IN  Dot(RoomFaces[i].normal, VecSub(room_centre, face_center)) > 0
        /\ CameraInsideRoom(room, transform) =>
              \A i \in 1..Len(RoomFaces) : ~RoomFaceCulled(room, transform, RoomFaces[i])

\* The camera is on the vertical through the centroid of the box, above the
\* box, and its viewing direction is straight down.
AboveLookingDown(f, tr) ==
    /\ 2 * tr.t[1] = 2 * f.x + f.depth
    /\ 2 * tr.t[2] = 2 * f.y + f.width
    /\ tr.t[3] > f.z + f.height
    /\ CamForward(tr, <<tr.t[1], tr.t[2], tr.t[3] - 1>>) = 1

\* The vertex lists of the faces accepted.
AcceptedFaces(faces_with_depth) ==
    {faces_with_depth[i].idx : i \in 1..Len(faces_with_depth)}

\* C16: a furniture drawn by a camera directly above its centroid that looks
\* straight down has its top face among the faces accepted for drawing and
\* not its bottom face, in Furniture.draw of furniture.py and in the one of
\* room_designer.py.
C16_TopExposedBottomHidden ==
    \A p \in 1..Len(painted) :
        LET f == furnitures[painted[p]]
            top == GetFaces[2].idx
            bottom == GetFaces[1].idx
        IN  AboveLookingDown(f, transform) =>
                /\ top \in AcceptedFaces(FurnitureFacesWithDepth(f, transform))
                /\ bottom \notin AcceptedFaces(FurnitureFacesWithDepth(f, transform))
                /\ top \in AcceptedFaces(DesignerFacesWithDepth(f, transform))
                /\ bottom \notin AcceptedFaces(DesignerFacesWithDepth(f, transform))

\* The furnitures of positive depth whose projected floor polygon contains
\* the point (px, py).
HitsAt(px, py) ==
    {i \in 1..Len(furnitures) :
        /\ CentroidDepth(furnitures[i], transform) > 0
        /\ IsPointInside2d(furnitures[i], px, py, transform)}

\* C17: find_furniture_at_point returns None exactly when no furniture of
\* positive depth has the point in its projected floor polygon, and
\* otherwise one of these furnitures, of the smallest depth among them.
C17_NearestHit ==
    cam_call.op = "find_furniture_at_point" =>
        LET hits == HitsAt(cam_call.px, cam_call.py)
            depth(i) == CentroidDepth(furnitures[i], transform)
        IN  /\ cam_call.result = 0 <=> hits = {}
            /\ cam_call.result # 0 =>
                  /\ cam_call.result \in hits
                  /\ \A j \in hits : depth(cam_call.result) <= depth(j)

\* The world-space ray through the pixel, times fx * fy: the camera-space ray
\* ((screen_x - cx) / fx, (screen_y - cy) / fy, 1) taken back by the inverse
\* rotation, as the combination of the rows of R.
WorldRay(tr, screen_x, screen_y, k) ==
    (screen_x - tr.cx) * tr.fy * tr.R[1][k]
    + (screen_y - tr.cy) * tr.fx * tr.R[2][k]
    + tr.fx * tr.fy * tr.R[3][k]

\* C18: _screen_to_world returns None when the Z component of the world ray
\* is within 0.001 of 0 or t = -cameraZ / rayZ is not positive, otherwise
\* exactly the point (cameraX + t * rayX, cameraY + t * rayY); it never
\* raises.
C18_ScreenToFloor ==
    cam_call.op = "screen_to_world" =>
        LET ray(k) == WorldRay(transform, cam_call.screen_x, cam_call.screen_y, k)
            scale == transform.fx * transform.fy
            camera == transform.t
            near_zero == 1000 * Abs(ray(3)) <= scale
            \* t = num / ray(3) with num = -cameraZ * scale
            t_not_positive == (-camera[3] * ray(3)) <= 0
            r == cam_call.result
        IN  /\ ~r.raised
            /\ (near_zero \/ t_not_positive) => r.none
            /\ ~(near_zero \/ t_not_positive) =>
                  /\ ~r.none
                  /\ r.den # 0
                  \* x = cameraX + t * rayX, with t * rayX = -cameraZ * ray(1) / ray(3)
                  /\ r.xn * ray(3) = (camera[1] * ray(3) - camera[3] * ray(1)) * r.den
                  /\ r.yn * ray(3) = (camera[2] * ray(3) - camera[3] * ray(2)) * r.den

\* A pixel left of the centre seen by the camera looking down was taken to a
\* floor point other than the point below the camera.
C18_Witness ==
    /\ cam_call.op = "screen_to_world"
    /\ ~cam_call.result.none
    /\ transform.t[3] > 0
    /\ cam_call.result.xn # transform.t[1] * cam_call.result.den

\* The vectors a and b point in the same direction.
Colinear(a, b) ==
    /\ a[2] * b[3] - a[3] * b[2] = 0
    /\ a[3] * b[1] - a[1] * b[3] = 0
    /\ a[1] * b[2] - a[2] * b[1] = 0
    /\ Dot(a, b) > 0

\* C19: with the identity rotation and the zero translation, the ray
\* unprojected from the pixel a point of positive depth projects to is
\* colinear with the point.
C19_RoundTrip ==
    (/\ cam_call.op = "project_unproject"
     /\ transform.R = Identity3
     /\ transform.t = <<0, 0, 0>>
     /\ cam_call.pixel.depth > 0) =>
        Colinear(cam_call.ray, cam_call.p)

\* The top-view pose: roll 0, pitch 90, yaw 0, above the centre of the floor.
TopViewAboveFloorCentre(tr, r) ==
    /\ tr.R = SetExternalParameter(tr, 0, 90, 0, 0, 0, 0).R
    /\ 2 * tr.t[1] = r.depth
    /\ 2 * tr.t[2] = r.width
    /\ tr.t[3] > 0

\* C20: in the top-view pose above the centre of the floor,
\* _screen_to_world of the screen centre (cx, cy) returns a point, and the
\* point is the centre of the floor to within one unit.
C20_FloorCentre ==
    (/\ cam_call.op = "screen_to_world"
     /\ TopViewAboveFloorCentre(transform, room)
     /\ cam_call.screen_x = transform.cx
     /\ cam_call.screen_y = transform.cy) =>
        LET r == cam_call.result
        IN  /\ ~r.raised
            /\ ~r.none
            /\ Abs(2 * r.xn - room.depth * r.den) <= 2 * Abs(r.den)
            /\ Abs(2 * r.yn - room.width * r.den) <= 2 * Abs(r.den)

\* The product Rz(yaw) Ry(pitch) Rx(roll) of the three elementary rotations,
\* multiplied out entry by entry.
EulerProduct(roll, pitch, yaw) ==
    LET cr == CosDeg(roll)
        sr == SinDeg(roll)
        cp == CosDeg(pitch)
        sp == SinDeg(pitch)
        cy == CosDeg(yaw)
        sy == SinDeg(yaw)
    IN  << <<cy * cp, cy * sp * sr - sy * cr, cy * sp * cr + sy * sr>>,
           <<sy * cp, sy * sp * sr + cy * cr, sy * sp * cr - cy * sr>>,
           <<-sp, cp * sr, cp * cr>> >>

\* R^T R is the identity.
Orthonormal(R) == MatMul(Transpose(R), R) = Identity3

MalformedBox(b) == b.width <= 0 \/ b.height <= 0 \/ b.depth <= 0

\* C22: constructing a Furniture or a Room from a box with a zero or negative
\* extent fails, and a rotation about an axis index outside {0, 1, 2} raises
\* ValueError.
C22_MisuseRejectedAtConstruction ==
    /\ cam_call.op \in {"Furniture", "Room"} /\ MalformedBox(cam_call.obj)
         => cam_call.raised
    /\ cam_call.op = "_rotation_matrix" /\ cam_call.axis \notin {0, 1, 2}
         => cam_call.result = "ValueError"

\* The fields of a furniture other than x and y.
AllButXY(f) == [name |-> f.name, z |-> f.z, width |-> f.width, height |-> f.height,
                depth |-> f.depth, color |-> f.color, is_selected |-> f.is_selected]

\* C23: Furniture.move_to, with or without a precision object, leaves z,
\* width, height, depth, colour, name and the selection flag as they were.
C23_MoveChangesOnlyXY ==
    cam_call.op = "move_to" => AllButXY(cam_call.result) = AllButXY(cam_call.f)

\* A shelf one half above the floor is moved with the grid snap on: its x is
\* snapped, and its z, which is off the grid, is not.
C23_Witness ==
    /\ cam_call.op = "move_to"
    /\ cam_call.precision # NoPrecision
    /\ cam_call.precision.grid_snap_enabled
    /\ cam_call.f.z = 1
    /\ cam_call.result.x # cam_call.x
    /\ SnapToGrid(cam_call.precision, cam_call.f.z) # cam_call.f.z

\* The same move without a precision object stores x and y as given.
C23_WitnessNoPrecision ==
    /\ cam_call.op = "move_to"
    /\ cam_call.precision = NoPrecision
    /\ cam_call.result.x = cam_call.x
    /\ cam_call.result.x # cam_call.f.x

FootprintInRoom(f, rm) ==
    /\ 0 <= f.x
    /\ f.x + f.depth <= rm.depth
    /\ 0 <= f.y
    /\ f.y + f.width <= rm.width

\* C26: after any sequence of drags every furniture's floor footprint
\* [x, x + depth] x [y, y + width] lies inside the floor of the room
\* [0, room.depth] x [0, room.width].
C26_DraggedStaysInRoom ==
    \A i \in 1..Len(furnitures) : FootprintInRoom(furnitures[i], room)

\* The number of drag modes that are on.
ModesOn(mc) ==
    Cardinality({m \in {"both_buttons_moving", "furniture_dragging",
                        "ue5_camera_moving", "view_rotating"} : mc[m]})

\* C27: when each button's down and up events alternate, at most one of
\* both_buttons_moving, furniture_dragging, ue5_camera_moving and
\* view_rotating is on, and none is on while the left and the right button
\* are both released.
C27_ModesExclusive ==
    /\ ModesOn(mouse_controller) <= 1
    /\ ("left" \notin mouse_held /\ "right" \notin mouse_held)
         => ModesOn(mouse_controller) = 0

\* The right button went down during a furniture drag: the two-button mode
\* took over from the drag.
C27_Witness ==
    /\ mouse_result.event = "RBUTTONDOWN"
    /\ drag_history = "selected"
    /\ mouse_controller.both_buttons_moving
    /\ {"left", "right"} \subseteq mouse_held

\* C28: the left-button release that follows a 'select' reports the
\* furniture action 'drop', whatever events came in between.
C28_SelectClosedByDrop ==
    drag_history = "released" => mouse_result.furniture_action = "drop"

\* The position of furniture fi in a list of [fi, depth] entries, 0 if it is
\* not in the list.
PositionOf(list, fi) ==
    IF \E k \in 1..Len(list) : list[k].fi = fi
    THEN CHOOSE k \in 1..Len(list) : list[k].fi = fi
    ELSE 0

\* C25: for two furnitures of positive depth, find_furniture_at_point ranks
\* one before the other exactly when Room.draw paints it after the other, and
\* at a point inside both footprints the hit test returns the one painted on
\* top.
C25_PickAgreesWithPaint ==
    cam_call.op = "find_furniture_at_point" =>
        LET pick == SortAsc(HitCandidates(furnitures, transform, 1))
            paint == FurnitureWithDepth(furnitures, transform)
        IN  \A i \in 1..Len(furnitures), j \in 1..Len(furnitures) :
                (/\ i # j
                 /\ PositionOf(pick, i) > 0 /\ PositionOf(pick, j) > 0
                 /\ PositionOf(paint, i) > 0 /\ PositionOf(paint, j) > 0)
                => /\ PositionOf(pick, i) < PositionOf(pick, j)
                        <=> PositionOf(paint, i) > PositionOf(paint, j)
                   /\ (/\ IsPointInside2d(furnitures[i], cam_call.px, cam_call.py, transform)
                       /\ IsPointInside2d(furnitures[j], cam_call.px, cam_call.py, transform)
                       /\ PositionOf(paint, i) > PositionOf(paint, j))
                        => cam_call.result = i

\* C29: the number of chunk tasks render_furnitures_parallel submits in one
\* call is at most the number of workers.
C29_OneChunkPerWorker == Len(futures) <= num_threads

\* C30: every call of cvt_3d_to_2d made by the face loops of Furniture.draw,
\* Room.draw and _render_face_chunk, by the name label and by
\* is_point_inside_2d is made on a point that is_point_visible accepts under
\* the same camera: its depth is > 0 and the call does not divide by zero.
C30_ProjectionGuarded ==
    cam_call.op = "cvt_3d_to_2d calls" =>
        \A j \in 1..Len(cam_call.calls) :
            /\ IsPointVisible(transform, cam_call.calls[j].p, ImgWidth, ImgHeight,
                              VisibleMargin)
            /\ CamForward(transform, cam_call.calls[j].p) > 0
            /\ ~cam_call.calls[j].result.raised

\* A face loop that projected some vertices and broke at one that is not
\* visible.
C30_Witness ==
    /\ cam_call.op = "cvt_3d_to_2d calls"
    /\ cam_call.site \in DrawSites
    /\ Len(cam_call.calls) \in 1..3

=============================================================================
